---------------------------- MODULE Spec2Model ----------------------------
(***************************************************************************)
(* A model of the character-level transformer of this repository:          *)
(* SimpleTokenizer (services/tokenizer.ts), buildDataset and trainModel    *)
(* (services/training.ts), sampleFromLogits and generateText               *)
(* (services/generation.ts).                                               *)
(*                                                                         *)
(* A string is a sequence of UTF-16 code units (numbers), as String.split  *)
(* ('') sees it.  A Map is a function whose domain is the set of its keys. *)
(* A key of the vocabulary is a string, so a single character c is the     *)
(* one-element sequence <<c>> and the reserved entries are the five-unit   *)
(* strings "<PAD>" and "<UNK>".                                            *)
(***************************************************************************)
EXTENDS Integers, Sequences, FiniteSets, Bags, TLC

(***************************************************************************)
(* Bounds of the model.                                                    *)
(***************************************************************************)
NumChars == 2
MaxCorpusLen == 2
MaxTextLen == 2
MaxIdsLen == 2
MaxDataLen == 5
MaxSeqLen == 3
MaxBatchSize == 3
MaxTrainLen == 8
MaxEpochs == 2
MaxPromptLen == 2
MaxNewTokens == 2
MaxContext == 2
MaxWeight == 1
MaxVocab == 4
MaxLogit == 2
MaxLayers == 2
MaxPersistChars == 9
MaxDModel == 4
MaxHeads == 3
MaxUserActions == 3
MaxSegments == 1
MaxFwdLen == 3

\* The characters the model draws strings from: 'A', 'B', ...
Alphabet == 65..(64 + NumChars)

RECURSIVE SeqsUpTo(_, _)
SeqsUpTo(S, n) ==
  IF n = 0 THEN {<<>>}
  ELSE LET shorter == SeqsUpTo(S, n - 1)
       IN  shorter \cup {Append(s, x) : s \in {t \in shorter : Len(t) = n - 1}, x \in S}

Range(s) == {s[i] : i \in 1..Len(s)}

Min(S) == CHOOSE m \in S : \A x \in S : m <= x

(***************************************************************************)
(* SimpleTokenizer                                                         *)
(***************************************************************************)
\* '<PAD>' and '<UNK>' as code units
PAD == <<60, 80, 65, 68, 62>>
UNK == <<60, 85, 78, 75, 62>>

\* Map.get of an absent key
Undefined == -1

EmptyMap == [k \in {} |-> 0]

MapSet(m, k, v) == [x \in DOMAIN m \cup {k} |-> IF x = k THEN v ELSE m[x]]

MapGet(m, k) == IF k \in DOMAIN m THEN m[k] ELSE Undefined

\* Array.from(new Set(input.split(''))).sort(): the distinct code units, ascending
RECURSIVE SortAsc(_)
SortAsc(S) ==
  IF S = {} THEN <<>>
  ELSE LET m == Min(S) IN <<m>> \o SortAsc(S \ {m})

\* The distinct characters in first-occurrence order, left unsorted
RECURSIVE InsertionOrder(_)
InsertionOrder(s) ==
  IF s = <<>> THEN <<>>
  ELSE LET rest == InsertionOrder(SubSeq(s, 1, Len(s) - 1))
           c == s[Len(s)]
       IN  IF c \in Range(rest) THEN rest ELSE Append(rest, c)

CharsUnsorted(input) == InsertionOrder(input)

SortedChars(input) == SortAsc(Range(input))

\* The loop body with idx advanced before the inverse entry is written
RECURSIVE ForEachCharIdxFirst(_, _, _)
ForEachCharIdxFirst(chars, k, t) ==
  IF k > Len(chars) THEN t
  ELSE ForEachCharIdxFirst(chars, k + 1,
         [vocab |-> MapSet(t.vocab, <<chars[k]>>, t.idx),
          inverseVocab |-> MapSet(t.inverseVocab, t.idx + 1, <<chars[k]>>),
          idx |-> t.idx + 1])

\* chars.forEach(char => { vocab.set(char, idx); inverseVocab.set(idx, char); idx++ })
RECURSIVE ForEachChar(_, _, _)
ForEachChar(chars, k, t) ==
  IF k > Len(chars) THEN t
  ELSE ForEachChar(chars, k + 1,
         [vocab |-> MapSet(t.vocab, <<chars[k]>>, t.idx),
          inverseVocab |-> MapSet(t.inverseVocab, t.idx, <<chars[k]>>),
          idx |-> t.idx + 1])

\* new SimpleTokenizer(corpus: string)
TokenizerFromCorpus(input) ==
  LET chars == SortedChars(input)
      t0 == [vocab |-> MapSet(MapSet(EmptyMap, PAD, 0), UNK, 1),
             inverseVocab |-> MapSet(MapSet(EmptyMap, 0, PAD), 1, UNK),
             idx |-> 2]
      t == ForEachChar(chars, 1, t0)
  IN  [vocab |-> t.vocab, inverseVocab |-> t.inverseVocab, vocabSize |-> t.idx]

\* A lookup that leaves an absent character as undefined
EncodeCharNoDefault(tk, c) == MapGet(tk.vocab, <<c>>)

\* this.vocab.get(char) || 1
EncodeChar(tk, c) ==
  LET id == MapGet(tk.vocab, <<c>>)
  IN  IF id = Undefined \/ id = 0 THEN 1 ELSE id

\* text.split('').map(...)
encode(tk, text) == [i \in 1..Len(text) |-> EncodeChar(tk, text[i])]

\* A lookup that renders an absent id as '<UNK>'
DecodeIdAsUnk(tk, id) ==
  IF id \in DOMAIN tk.inverseVocab THEN tk.inverseVocab[id] ELSE UNK

\* this.inverseVocab.get(id) || ''
DecodeId(tk, id) ==
  IF id \in DOMAIN tk.inverseVocab THEN tk.inverseVocab[id] ELSE <<>>

RECURSIVE Join(_)
Join(parts) == IF parts = <<>> THEN <<>> ELSE Head(parts) \o Join(Tail(parts))

\* ids.map(...).join('')
decode(tk, ids) == Join([i \in 1..Len(ids) |-> DecodeId(tk, ids[i])])

NoTokenizer == [vocab |-> EmptyMap, inverseVocab |-> EmptyMap, vocabSize |-> 0]

(***************************************************************************)
(* buildDataset                                                            *)
(***************************************************************************)
\* Array.prototype.slice(start, end) on a 0-based array, for start, end >= 0
Slice(arr, start, end) ==
  LET n == Len(arr)
      from == IF start > n THEN n ELSE start
      to == IF end > n THEN n ELSE end
  IN  IF to <= from THEN <<>> ELSE SubSeq(arr, from + 1, to)

\* ids.slice(i, i + seqLen)
InputWindow(ids, i, seqLen) == Slice(ids, i, i + seqLen)

\* The target taken at the same offset as the input
TargetWindowUnshifted(ids, i, seqLen) == Slice(ids, i, i + seqLen)

\* ids.slice(i + 1, i + seqLen + 1)
TargetWindow(ids, i, seqLen) == Slice(ids, i + 1, i + seqLen + 1)

\* for (let i = 0; i <= ids.length - seqLen - 1; i++) { ...push(...) }
RECURSIVE CreateWindows(_, _, _, _)
CreateWindows(ids, seqLen, i, acc) ==
  IF i <= Len(ids) - seqLen - 1
  THEN CreateWindows(ids, seqLen, i + 1,
         [inputIndices |-> Append(acc.inputIndices, InputWindow(ids, i, seqLen)),
          targetIndices |-> Append(acc.targetIndices, TargetWindow(ids, i, seqLen))])
  ELSE acc

\* Math.floor(inputIndices.length / batchSize) * batchSize, for batchSize >= 1
NumSamples(nWindows, batchSize) == (nWindows \div batchSize) * batchSize

\* A check that never fires
NeverTooShort(numSamples) == numSamples < 0

\* if (numSamples === 0) throw
TooShort(numSamples) == numSamples = 0

\* tf.tensor2d(values, [rows, cols], 'int32'): the values must fill the shape
Tensor2dFits(values, rows, cols) ==
  /\ Len(values) = rows
  /\ \A r \in 1..Len(values) : Len(values[r]) = cols

TooShortMessage == "Text too short for current sequence length and batch size."

\* buildDataset(text, tokenizer, seqLen, batchSize): the Dataset, or the Error thrown
buildDataset(text, tk, seqLen, batchSize) ==
  LET ids == encode(tk, text)
      w == CreateWindows(ids, seqLen, 0, [inputIndices |-> <<>>, targetIndices |-> <<>>])
      numSamples == NumSamples(Len(w.inputIndices), batchSize)
      slicedInputs == Slice(w.inputIndices, 0, numSamples)
      slicedTargets == Slice(w.targetIndices, 0, numSamples)
  IN  IF TooShort(numSamples)
      THEN [kind |-> "error", message |-> TooShortMessage]
      ELSE IF /\ Tensor2dFits(slicedInputs, numSamples, seqLen)
              /\ Tensor2dFits(slicedTargets, numSamples, seqLen)
           THEN [kind |-> "dataset", inputs |-> slicedInputs, targets |-> slicedTargets,
                 numSamples |-> numSamples, seqLen |-> seqLen]
           ELSE [kind |-> "error", message |-> "tensor2d: values do not match the shape"]

(***************************************************************************)
(* TransformerModel: its trainable variables.  A tensor is abstracted to   *)
(* one integer; the tensor library's arithmetic (forward pass, loss,       *)
(* gradients, Adam) is abstracted to deterministic integer functions of    *)
(* the same arguments.                                                     *)
(***************************************************************************)
\* Object.keys(model.getTrainableVariables())
VariableNames(numLayers) ==
  {<<"emb_embedding">>, <<"final_proj">>}
    \cup {<<"blk", i, suffix>> :
            i \in 0..(numLayers - 1),
            suffix \in {"mha_wq", "mha_wk", "mha_wv", "mha_wo", "ffn_w1", "ffn_w2",
                        "ln1_g", "ln1_b", "ln2_g", "ln2_b"}}

\* new TransformerModel(config): freshly initialised variables
InitialParams(numLayers) == [n \in VariableNames(numLayers) |-> 0]

RECURSIVE SumSeq(_)
SumSeq(q) == IF q = <<>> THEN 0 ELSE Head(q) + SumSeq(Tail(q))

\* The sum of all entries of a batch [rows][cols]
SumBatch(rows) == SumSeq([r \in 1..Len(rows) |-> SumSeq(rows[r])])

\* loss.mean() of softmaxCrossEntropy(oneHot(batchTargets), model.forward(batchInputs).logits)
LossValue(p, batchInputs, batchTargets) ==
  1 + ((SumBatch(batchInputs) + 2 * SumBatch(batchTargets) + p[<<"final_proj">>]) % 5)

\* tf.variableGrads(...).grads: one gradient per trainable variable
Grads(p, batchInputs, batchTargets) ==
  [n \in DOMAIN p |-> 1 + ((SumBatch(batchTargets) + p[n]) % 2)]

\* optimizer.applyGradients(grads): every variable is reassigned
ApplyGradients(p, grads, learningRate) ==
  [n \in DOMAIN p |-> p[n] - learningRate * grads[n]]

\* An update interrupted after the embedding was reassigned
PartlyApplied(p, batchInputs, batchTargets, learningRate) ==
  [n \in DOMAIN p |->
     IF n = <<"emb_embedding">>
     THEN p[n] - learningRate * Grads(p, batchInputs, batchTargets)[n]
     ELSE p[n]]

\* The variables when model.forward or the gradient computation throws inside
\* tf.variableGrads: control leaves the tidy callback before applyGradients
ParamsAfterThrow(p, batchInputs, batchTargets, learningRate) == p

(***************************************************************************)
(* TransformerModel as persistence sees it: a config and the variables     *)
(* getTrainableVariables registers, each with the shape its constructor    *)
(* gave it.  A model is a record [config, vars].                           *)
(***************************************************************************)
BlockSuffixes ==
  <<"mha_wq", "mha_wk", "mha_wv", "mha_wo", "ffn_w1", "ffn_w2",
    "ln1_g", "ln1_b", "ln2_g", "ln2_b">>

\* Object.entries(model.getTrainableVariables()): the names in insertion order
VariableOrder(numLayers) ==
  <<<<"emb_embedding">>>>
    \o [k \in 1..(numLayers * Len(BlockSuffixes)) |->
          <<"blk", (k - 1) \div Len(BlockSuffixes),
            BlockSuffixes[1 + ((k - 1) % Len(BlockSuffixes))]>>]
    \o <<<<"final_proj">>>>

\* variable.shape, as the layers' constructors set it
ShapeOf(config, name) ==
  IF name = <<"emb_embedding">> THEN <<config.vocabSize, config.dModel>>
  ELSE IF name = <<"final_proj">> THEN <<config.dModel, config.vocabSize>>
  ELSE IF name[3] \in {"mha_wq", "mha_wk", "mha_wv", "mha_wo"}
       THEN <<config.dModel, config.dModel>>
  ELSE IF name[3] = "ffn_w1" THEN <<config.dModel, config.dff>>
  ELSE IF name[3] = "ffn_w2" THEN <<config.dff, config.dModel>>
  ELSE <<config.dModel>>

\* new TransformerModel(config)
NewTransformerModel(config) == [config |-> config, vars |-> InitialParams(config.numLayers)]

\* this.depth = Math.floor(dModel / numHeads)
HeadDepth(dModel, numHeads) == dModel \div numHeads

\* What new TransformerModel(config) produces: the instance, the depth of the
\* heads of its attention layers and the number of tensors tf.variable allocated
ConstructTransformerModel(config) ==
  [kind |-> "model",
   config |-> config,
   depth |-> HeadDepth(config.dModel, config.numHeads),
   allocated |-> Len(VariableOrder(config.numLayers))]

(***************************************************************************)
(* Persistence: exportModelState, importModelState, importTokenizer.       *)
(* An object is a function on its property keys, which are strings: a      *)
(* number used as a key is written in decimal, and read back by Number().  *)
(***************************************************************************)
\* String(n) for an integer n >= 0, as code units
RECURSIVE NumberToString(_)
NumberToString(n) ==
  IF n < 10 THEN <<48 + n>> ELSE Append(NumberToString(n \div 10), 48 + (n % 10))

\* A conversion that reads the first digit only
StringToNumberFirstDigit(str) == str[1] - 48

\* Number(str) for a string of decimal digits
RECURSIVE StringToNumber(_)
StringToNumber(str) ==
  IF Len(str) = 1 THEN str[1] - 48
  ELSE 10 * StringToNumber(SubSeq(str, 1, Len(str) - 1)) + (str[Len(str)] - 48)

\* Object.fromEntries(map) for a Map with string keys
ObjectFromStringMap(m) == m

\* Object.fromEntries(map) for a Map with number keys
ObjectFromNumberMap(m) ==
  [key \in {NumberToString(id) : id \in DOMAIN m} |->
     m[CHOOSE id \in DOMAIN m : NumberToString(id) = key]]

\* The SerializedTokenizer exportModelState builds
SerializeTokenizer(tk) ==
  [charToId |-> ObjectFromStringMap(tk.vocab),
   idToChar |-> ObjectFromNumberMap(tk.inverseVocab),
   vocabSize |-> tk.vocabSize]

\* new SimpleTokenizer(serialized): the hydrate branch
TokenizerFromSerialized(input) ==
  [vocab |-> [char \in DOMAIN input.charToId |-> input.charToId[char]],
   inverseVocab |->
     [id \in {StringToNumber(key) : key \in DOMAIN input.idToChar} |->
        input.idToChar[CHOOSE key \in DOMAIN input.idToChar : StringToNumber(key) = id]],
   vocabSize |-> input.vocabSize]

\* importTokenizer(serialized)
importTokenizer(serialized) == TokenizerFromSerialized(serialized)

\* weights[name] = {shape: variable.shape, data: Array.from(await variable.data())}
ExportEntry(config, p, name) == [shape |-> ShapeOf(config, name), data |-> p[name]]

\* JSON.stringify(v.shape) !== JSON.stringify(spec.shape)
ShapeMismatch(shape, savedShape) == shape # savedShape

\* The loop of importModelState leaving at the first entry it cannot use
RECURSIVE ImportLoopBreak(_, _, _, _)
ImportLoopBreak(config, p, entries, k) ==
  IF k > Len(entries) THEN p
  ELSE LET name == entries[k].name
           spec == entries[k].spec
       IN  IF name \notin DOMAIN p THEN p
           ELSE IF ShapeMismatch(ShapeOf(config, name), spec.shape) THEN p
           ELSE ImportLoopBreak(config, [p EXCEPT ![name] = spec.data], entries, k + 1)

\* for (const [name, spec] of Object.entries(state.weights)) { ... v.assign(tensor) }
RECURSIVE ImportLoop(_, _, _, _)
ImportLoop(config, p, entries, k) ==
  IF k > Len(entries) THEN p
  ELSE LET name == entries[k].name
           spec == entries[k].spec
       IN  IF name \notin DOMAIN p
           THEN ImportLoop(config, p, entries, k + 1)
           ELSE IF ShapeMismatch(ShapeOf(config, name), spec.shape)
                THEN ImportLoop(config, p, entries, k + 1)
                ELSE ImportLoop(config, [p EXCEPT ![name] = spec.data], entries, k + 1)

\* importModelState(model, state): the model afterwards
importModelState(model, state) ==
  [config |-> model.config,
   vars |-> ImportLoop(model.config, model.vars, state.weights, 1)]

(***************************************************************************)
(* trainModel                                                              *)
(***************************************************************************)
\* if (step % 5 === 0) await ...
YieldEvery == 5

\* The start taken as the step index itself
BatchStartUnscaled(step, batchSize) == step

\* const start = step * config.batchSize
BatchStart(step, batchSize) == step * batchSize

\* tensor.slice([start, 0], [batchSize, seqLen]) of a [numSamples, seqLen] tensor
SliceRows(rows, start, size) == SubSeq(rows, start + 1, start + size)

\* avgLoss.toFixed(4), in units of 0.0001: totalLoss / stepsPerEpoch rounded half up
ToFixed4(totalLoss, stepsPerEpoch) ==
  (2 * 10000 * totalLoss + stepsPerEpoch) \div (2 * stepsPerEpoch)

\* The arguments of onLog, one record per message template
LogPreparing(corpusLen) == [kind |-> "log:preparing", args |-> <<corpusLen>>]
LogError(message) == [kind |-> "log:error", args |-> <<message>>]
LogDataset(numSamples, stepsPerEpoch) ==
  [kind |-> "log:dataset", args |-> <<numSamples, stepsPerEpoch>>]
LogEpoch(ep, epochs, fixed4) == [kind |-> "log:epoch", args |-> <<ep, epochs, fixed4>>]
LogComplete == [kind |-> "log:complete", args |-> <<>>]

\* The catch block rethrowing instead of logging
DatasetErrorRethrown(message) == [pc |-> "failed", logged |-> <<>>]

\* catch (e) { onLog(`Error: ${e.message}`); return; }
DatasetErrorCaught(message) == [pc |-> "returned", logged |-> <<LogError(message)>>]

(***************************************************************************)
(* sampleFromLogits.  A logit vector is a function on the ids              *)
(* 0..vocabSize-1.  A temperature is counted in units of the floor 1e-5.   *)
(* A probability is a whole number of ProbUnit-ths, rounded down as a      *)
(* float rounds; the uniform draw r is one of 0/ProbUnit .. (ProbUnit-1)/  *)
(* ProbUnit, as Math.random() lies in [0, 1).                              *)
(***************************************************************************)
\* 1e-5, in temperature units
TemperatureFloor == 1

\* The scale that keeps logits / temperature in whole numbers
TemperatureScale == 6

\* The resolution of probabilities and of the random draw
ProbUnit == 8

\* Math.max(temperature, 1e-5)
ClampTemperature(temperature) ==
  IF temperature > TemperatureFloor THEN temperature ELSE TemperatureFloor

\* logits.div(tf.scalar(Math.max(temperature, 1e-5)))
Adjust(logits, temperature) ==
  [v \in DOMAIN logits |->
     logits[v] * (TemperatureScale \div ClampTemperature(temperature))]

RECURSIVE Pow2(_)
Pow2(n) == IF n <= 0 THEN 1 ELSE 2 * Pow2(n - 1)

\* tf.softmax of a sequence of values
Softmax(values) ==
  LET lo == Min(Range(values))
      w == [i \in 1..Len(values) |-> Pow2(values[i] - lo)]
      total == SumSeq(w)
  IN  [i \in 1..Len(values) |-> (ProbUnit * w[i]) \div total]

\* Whether id a comes before id b in the order of tf.topk: larger value first,
\* the lower index first among equal values
Before(x, a, b) == x[a] > x[b] \/ (x[a] = x[b] /\ a < b)

\* The k smallest values first
TopKAscending(x, k) ==
  LET ids == DOMAIN x
      rank(a) == Cardinality({b \in ids : x[b] < x[a] \/ (x[b] = x[a] /\ b < a)})
  IN  [i \in 1..k |-> CHOOSE a \in ids : rank(a) = i - 1]

\* tf.topk(adjusted, topK).indices
TopKIndices(x, k) ==
  LET ids == DOMAIN x
      rank(a) == Cardinality({b \in ids : Before(x, b, a)})
  IN  [i \in 1..k |-> CHOOSE a \in ids : rank(a) = i - 1]

\* for (i = 0; i < probs.length; i++) { acc += probs[i]; if (r <= acc) ... }:
\* the 0-based index at which the scan stops, or -1 when it runs to the end
RECURSIVE ScanFrom(_, _, _, _)
ScanFrom(probs, r, i, acc) ==
  IF i >= Len(probs) THEN -1
  ELSE IF r <= acc + probs[i + 1] THEN i
       ELSE ScanFrom(probs, r, i + 1, acc + probs[i + 1])

Scan(probs, r) == ScanFrom(probs, r, 0, 0)

\* The filter applied also when topK equals the vocabulary size
TopKAppliesInclusive(topK, size) == topK > 0 /\ topK <= size

\* if (topK > 0 && topK < logits.shape[0])
TopKApplies(topK, size) == topK > 0 /\ topK < size

\* sampleFromLogits(logits, temperature, topK), with r the value of Math.random()
sampleFromLogits(logits, temperature, topK, r) ==
  LET adjusted == Adjust(logits, temperature)
      size == Cardinality(DOMAIN logits)
  IN  IF TopKApplies(topK, size)
      THEN LET indices == TopKIndices(adjusted, topK)
               values == [i \in 1..topK |-> adjusted[indices[i]]]
               hit == Scan(Softmax(values), r)
               selectedIndexInTopK == IF hit = -1 THEN 0 ELSE hit
           IN  indices[selectedIndexInTopK + 1]
      ELSE LET probs == Softmax([i \in 1..size |-> adjusted[i - 1]])
               hit == Scan(probs, r)
           IN  IF hit = -1 THEN size - 1 ELSE hit

(***************************************************************************)
(* generateText                                                            *)
(***************************************************************************)
\* The logits of the last position of model.forward(context), a deterministic
\* function of the variables and of the context
LastLogits(p, context, vocabSize) ==
  [v \in 0..(vocabSize - 1) |->
     ((v + 1) * (1 + p[<<"final_proj">>] + SumSeq(context))
        + Len(context) * v * v + context[Len(context)]) % 3]

\* Array.prototype.slice(start) with a negative or zero start
SliceFrom(arr, start) ==
  LET n == Len(arr)
      from == IF start < 0 THEN (IF n + start < 0 THEN 0 ELSE n + start)
              ELSE (IF start > n THEN n ELSE start)
  IN  SubSeq(arr, from + 1, n)

\* The first contextLen ids instead of the last
ClipFront(ids, maxLen) ==
  LET contextLen == IF Len(ids) < maxLen THEN Len(ids) ELSE maxLen
  IN  Slice(ids, 0, contextLen)

\* tokenIds.slice(-Math.min(tokenIds.length, model.config.maxLen))
ClipContext(ids, maxLen) ==
  LET contextLen == IF Len(ids) < maxLen THEN Len(ids) ELSE maxLen
  IN  SliceFrom(ids, -contextLen)

\* A loop that runs once more
LoopContinuesInclusive(i, maxNewTokens) == i <= maxNewTokens

\* i < config.maxNewTokens
LoopContinues(i, maxNewTokens) == i < maxNewTokens

\* A loop that awaits after every second token only
YieldAfterOddToken(i) == i % 2 = 1

\* await new Promise(r => setTimeout(r, 0)) closes every pass of the loop
YieldAfterToken(i) == TRUE

\* tokenizer.encode(prompt), and [UNK] for the empty prompt
InitialIds(tk, prompt) ==
  LET ids == encode(tk, prompt)
      unk == MapGet(tk.vocab, UNK)
  IN  IF Len(ids) = 0
      THEN <<IF unk = Undefined \/ unk = 0 THEN 1 ELSE unk>>
      ELSE ids

(***************************************************************************)
(* createLookAheadMask and the masked scores of a forward pass             *)
(***************************************************************************)
\* An entry that is 1 on the diagonal too
MaskEntryInclusive(i, j) == IF j >= i THEN 1 ELSE 0

\* if (j > i) buffer.set(1, i, j) else buffer.set(0, i, j)
MaskEntry(i, j) == IF j > i THEN 1 ELSE 0

\* The two loops over i and j fill a size-by-size buffer
createLookAheadMask(size) ==
  [i \in 0..(size - 1) |-> [j \in 0..(size - 1) |-> MaskEntry(i, j)]]

\* The factor of tf.mul(maskExpanded, -1e9)
MaskOffset == -1000000000

\* scores = tf.add(scores, tf.mul(maskExpanded, -1e9)); without a mask the
\* scores stay as they are
AddMask(scores, mask, given) ==
  IF given
  THEN [i \in DOMAIN scores |->
          [j \in DOMAIN scores[i] |-> scores[i][j] + mask[i][j] * MaskOffset]]
  ELSE scores

\* The values a block works on, one number per position: the embedding of
\* the id scaled and shifted by the positional encoding
Embed(ids) == [i \in 0..(Len(ids) - 1) |-> 2 * ids[i + 1] + i]

\* tf.matMul(q, k, false, true) scaled: one score per (query, key) pair
RawScores(x) == [i \in DOMAIN x |-> [j \in DOMAIN x |-> x[i] * x[j]]]

\* The key a query attends to most: the weights of tf.softmax(scores)
\* reduced to their largest entry, the first one on ties
Attended(row) ==
  CHOOSE j \in DOMAIN row :
    \A k \in DOMAIN row : row[j] > row[k] \/ (row[j] = row[k] /\ j <= k)

\* EncoderBlock.forward: attention output added to x and normalised
BlockOutput(x, scores) ==
  [i \in DOMAIN x |-> (x[i] + x[Attended(scores[i])]) % 5]

(***************************************************************************)
(* The variables of the model under forward and predict                    *)
(***************************************************************************)
\* A forward pass that scales the embedding variable in place
ParamsAfterForwardScaled(p, ids) ==
  [n \in DOMAIN p |-> IF n = <<"emb_embedding">> THEN 2 * p[n] + 1 ELSE p[n]]

\* model.forward reads the variables (tf.gather, dense, tf.mul, tf.add) into
\* new tensors and assigns to none of them
ParamsAfterForward(p, ids) == p

\* predict(tokenIds).predictedId: 0 for no ids, else the arg-max of the logits
\* of the last position
predict(p, ids, vocabSize) ==
  IF Len(ids) = 0 THEN 0
  ELSE LET logits == LastLogits(p, ids, vocabSize)
       IN  CHOOSE v \in DOMAIN logits :
             \A u \in DOMAIN logits :
               logits[v] > logits[u] \/ (logits[v] = logits[u] /\ v <= u)

Corpora == SeqsUpTo(Alphabet, MaxCorpusLen)
Texts == SeqsUpTo(Alphabet, MaxTextLen)

VARIABLES
  tokenizer,   \* the SimpleTokenizer in use: [vocab, inverseVocab, vocabSize]
  tokCorpus,   \* the corpus it was constructed from
  tokBuilt,    \* whether a tokenizer has been constructed
  encText,     \* argument of the last encode call
  encIds,      \* result of the last encode call
  decIds,      \* argument of the last decode call
  decText      \* result of the last decode call

tokVars == <<tokenizer, tokCorpus, tokBuilt, encText, encIds, decIds, decText>>

VARIABLES
  dsCalled,    \* whether buildDataset has been called
  dsText,      \* its text argument
  dsSeqLen,    \* its seqLen argument
  dsBatchSize, \* its batchSize argument
  dsResult     \* what the call produced: a Dataset or a thrown Error

dsVars == <<dsCalled, dsText, dsSeqLen, dsBatchSize, dsResult>>

VARIABLES
  params,      \* the model's trainable variables: name -> value
  trainPc,     \* where the trainModel call stands
  trainCorpus, \* its corpus argument
  trainConfig, \* its TrainingConfig argument
  dataset,     \* the Dataset buildDataset returned
  epoch,       \* loop variable of the epoch loop
  step,        \* loop variable of the batch loop
  totalLoss,   \* loss accumulated in the current epoch
  events,      \* the onLog messages, optimizer updates and exceptions of the call, in order
  params0,     \* the variables as they were when the call started
  fwdCount     \* forward passes run by the call

trainVars == <<params, trainPc, trainCorpus, trainConfig, dataset, epoch, step,
               totalLoss, events, params0, fwdCount>>

VARIABLES
  modelMaxLen, \* model.config.maxLen
  genPc,       \* where the generateText call stands
  genPrompt,   \* its prompt argument
  genConfig,   \* its GenerationConfig argument
  tokenIds,    \* the sequence generated so far, prompt included
  resultText,  \* the text generated so far
  genI,        \* loop variable
  genIds0,     \* tokenIds as the loop first saw it
  contexts,    \* the contexts given to model.forward, in order
  sampled,     \* the ids sampleFromLogits returned, in order
  callbacks,   \* the arguments of onStep, in order
  genReturn,   \* the value the call returned
  genYields    \* how many times the call has given up control at its await

genVars == <<modelMaxLen, genPc, genPrompt, genConfig, tokenIds, resultText, genI,
             genIds0, contexts, sampled, callbacks, genReturn, genYields>>

VARIABLES
  sampCalled,      \* whether sampleFromLogits has been called
  sampLogits,      \* its logits argument
  sampTemperature, \* its temperature argument
  sampTopK,        \* its topK argument
  sampR,           \* the value Math.random() returned inside the call
  sampResult       \* the id the call returned

sampVars == <<sampCalled, sampLogits, sampTemperature, sampTopK, sampR, sampResult>>

VARIABLES
  modelConfig,  \* model.config of the live model, whose variables are params
  expPc,        \* where the exportModelState call stands
  expWeights,   \* the weights object it has filled so far, as entries in key order
  saved,        \* the SavedModelState it returned
  impKind,      \* which model importModelState was given
  impBefore,    \* that model before the call
  impAfter,     \* that model after the call
  restoredBuilt,\* whether importTokenizer has been called
  restored,     \* the tokenizer importTokenizer returned
  trained       \* whether the live model was trained after the export

persistVars == <<modelConfig, expPc, expWeights, saved, impKind, impBefore, impAfter,
                 restoredBuilt, restored, trained>>

VARIABLES
  ctorCalled,   \* whether new TransformerModel(config) has been evaluated
  ctorConfig,   \* its config argument
  ctorResult    \* what it produced

ctorVars == <<ctorCalled, ctorConfig, ctorResult>>

VARIABLES
  status,       \* the RunStatus the application shows
  modelRef,     \* modelRef.current: 0 for null, else the number of the object
  tokenizerRef, \* tokenizerRef.current, likewise
  calls,        \* the trainModel and generateText calls started, in order
  initPending,  \* initSystem runs waiting at await initBackend()
  loadPending,  \* whether a handleLoad run waits at await pickJsonFile()
  savePending,  \* whether a handleSave run waits at await exportModelState()
  logs,         \* the messages given to addLog: how often each was logged
  objects,      \* how many tokenizers and models have been created
  userActions   \* how many user actions have been taken

appVars == <<status, modelRef, tokenizerRef, calls, initPending, loadPending,
             savePending, logs, objects, userActions>>

VARIABLES
  fwdPc,        \* where the TransformerModel.forward call stands
  fwdIds,       \* the one row of its inputIds argument
  fwdLayers,    \* how many encoder blocks the model has
  fwdX,         \* x, the values handed from block to block
  fwdMask,      \* the local constant mask
  fwdMaskCalls, \* how often createLookAheadMask was called
  fwdBlocks     \* per block run: the mask it was given and its scores

fwdVars == <<fwdPc, fwdIds, fwdLayers, fwdX, fwdMask, fwdMaskCalls, fwdBlocks>>

VARIABLES
  shOp,         \* the direct call made on the shared model: forward or predict
  shIds,        \* its ids
  shOut         \* what it returned

shVars == <<shOp, shIds, shOut>>

lateVars == <<fwdVars, shVars>>

extVars == <<sampVars, persistVars, ctorVars, appVars, lateVars>>

vars == <<tokVars, dsVars, trainVars, genVars, extVars>>

\* No tokenizer constructed yet
TokNone ==
  /\ tokenizer = NoTokenizer
  /\ tokCorpus = <<>>
  /\ tokBuilt = FALSE
  /\ encText = <<>>
  /\ encIds = <<>>
  /\ decIds = <<>>
  /\ decText = <<>>

\* A tokenizer constructed from the given corpus, not yet used
TokFrom(corpus) ==
  /\ tokenizer = TokenizerFromCorpus(corpus)
  /\ tokCorpus = corpus
  /\ tokBuilt = TRUE
  /\ encText = <<>>
  /\ encIds = <<>>
  /\ decIds = <<>>
  /\ decText = <<>>

NoResult == [kind |-> "none"]

\* buildDataset not called
DsNone ==
  /\ dsCalled = FALSE
  /\ dsText = <<>>
  /\ dsSeqLen = 0
  /\ dsBatchSize = 0
  /\ dsResult = NoResult

NoConfig == [batchSize |-> 0, epochs |-> 0, learningRate |-> 0, seqLen |-> 0]

\* The model has one encoder block
NumLayers == 1

\* A fresh model, no trainModel call made
TrainNone ==
  /\ params = InitialParams(NumLayers)
  /\ trainPc = "idle"
  /\ trainCorpus = <<>>
  /\ trainConfig = NoConfig
  /\ dataset = NoResult
  /\ epoch = 0
  /\ step = 0
  /\ totalLoss = 0
  /\ events = <<>>
  /\ params0 = InitialParams(NumLayers)
  /\ fwdCount = 0

NoGenConfig == [maxNewTokens |-> 0, temperature |-> 0, topK |-> 0]

\* No generateText call made
GenNone ==
  /\ genPc = "idle"
  /\ genPrompt = <<>>
  /\ genConfig = NoGenConfig
  /\ tokenIds = <<>>
  /\ resultText = <<>>
  /\ genI = 0
  /\ genIds0 = <<>>
  /\ contexts = <<>>
  /\ sampled = <<>>
  /\ callbacks = <<>>
  /\ genReturn = <<>>
  /\ genYields = 0

\* sampleFromLogits not called
SampNone ==
  /\ sampCalled = FALSE
  /\ sampLogits = <<>>
  /\ sampTemperature = 0
  /\ sampTopK = 0
  /\ sampR = 0
  /\ sampResult = 0

NoModelConfig ==
  [vocabSize |-> 0, dModel |-> 0, numHeads |-> 0, dff |-> 0, numLayers |-> 0,
   maxLen |-> 0, dropoutRate |-> 0]

NoModel == [config |-> NoModelConfig, vars |-> EmptyMap]

NoSavedState ==
  [config |-> NoModelConfig,
   tokenizer |-> [charToId |-> EmptyMap, idToChar |-> EmptyMap, vocabSize |-> 0],
   weights |-> <<>>]

\* Nothing exported or imported
PersistNone ==
  /\ modelConfig = NoModelConfig
  /\ expPc = "idle"
  /\ expWeights = <<>>
  /\ saved = NoSavedState
  /\ impKind = "none"
  /\ impBefore = NoModel
  /\ impAfter = NoModel
  /\ restoredBuilt = FALSE
  /\ restored = NoTokenizer
  /\ trained = FALSE

\* No model constructed on its own
CtorNone ==
  /\ ctorCalled = FALSE
  /\ ctorConfig = NoModelConfig
  /\ ctorResult = [kind |-> "none"]

\* The application not mounted
AppNone ==
  /\ status = "INITIALIZING"
  /\ modelRef = 0
  /\ tokenizerRef = 0
  /\ calls = <<>>
  /\ initPending = 0
  /\ loadPending = FALSE
  /\ savePending = FALSE
  /\ logs = EmptyBag
  /\ objects = 0
  /\ userActions = 0

\* forward not called
FwdNone ==
  /\ fwdPc = "idle"
  /\ fwdIds = <<>>
  /\ fwdLayers = 0
  /\ fwdX = <<>>
  /\ fwdMask = <<>>
  /\ fwdMaskCalls = 0
  /\ fwdBlocks = <<>>

\* No direct forward or predict call
ShNone ==
  /\ shOp = "none"
  /\ shIds = <<>>
  /\ shOut = <<>>

LateNone == FwdNone /\ ShNone

ExtNone == SampNone /\ PersistNone /\ CtorNone /\ AppNone /\ LateNone

TokInit == TokNone /\ DsNone /\ TrainNone /\ modelMaxLen = 1 /\ GenNone /\ ExtNone

\* new SimpleTokenizer(corpus)
Construct(corpus) ==
  /\ ~tokBuilt
  /\ tokenizer' = TokenizerFromCorpus(corpus)
  /\ tokCorpus' = corpus
  /\ tokBuilt' = TRUE
  /\ encText' = <<>>
  /\ encIds' = <<>>
  /\ decIds' = <<>>
  /\ decText' = <<>>
  /\ UNCHANGED <<dsVars, trainVars, genVars>>
  /\ UNCHANGED extVars

\* tokenizer.encode(text)
Encode(text) ==
  /\ tokBuilt
  /\ encText' = text
  /\ encIds' = encode(tokenizer, text)
  /\ decIds' = <<>>
  /\ decText' = <<>>
  /\ UNCHANGED <<tokenizer, tokCorpus, tokBuilt>>
  /\ UNCHANGED <<dsVars, trainVars, genVars>>
  /\ UNCHANGED extVars

\* tokenizer.decode(ids)
Decode(ids) ==
  /\ tokBuilt
  /\ decIds' = ids
  /\ decText' = decode(tokenizer, ids)
  /\ encText' = <<>>
  /\ encIds' = <<>>
  /\ UNCHANGED <<tokenizer, tokCorpus, tokBuilt>>
  /\ UNCHANGED <<dsVars, trainVars, genVars>>
  /\ UNCHANGED extVars

\* tokenizer.decode(tokenizer.encode(text)): decode applied to the last encode result
DecodeEncoded ==
  /\ tokBuilt
  /\ decIds' = encIds
  /\ decText' = decode(tokenizer, encIds)
  /\ UNCHANGED <<tokenizer, tokCorpus, tokBuilt, encText, encIds>>
  /\ UNCHANGED <<dsVars, trainVars, genVars>>
  /\ UNCHANGED extVars

IdSeqs == SeqsUpTo(0..(NumChars + 2), MaxIdsLen)

\* The tokenizer never changes once built, so a behaviour makes one encode call
\* (followed or not by decoding its result) or one decode call
TokUnused == encText = <<>> /\ encIds = <<>> /\ decIds = <<>> /\ decText = <<>>

TokNext ==
  \/ ~tokBuilt /\ \E corpus \in Corpora : Construct(corpus)
  \/ TokUnused /\ \E text \in Texts : Encode(text)
  \/ TokUnused /\ \E ids \in IdSeqs : Decode(ids)
  \/ DecodeEncoded

SpecTok == TokInit /\ [][TokNext]_vars

(***************************************************************************)
(* buildDataset called on its own, with a tokenizer that knows every       *)
(* character of the alphabet but the last.                                 *)
(***************************************************************************)
KnownCorpus == [i \in 1..(NumChars - 1) |-> 64 + i]

DataTexts == SeqsUpTo(Alphabet, MaxDataLen)

DataInit ==
  TokFrom(KnownCorpus) /\ DsNone /\ TrainNone /\ modelMaxLen = 1 /\ GenNone /\ ExtNone

BuildDataset(text, seqLen, batchSize) ==
  /\ ~dsCalled
  /\ dsCalled' = TRUE
  /\ dsText' = text
  /\ dsSeqLen' = seqLen
  /\ dsBatchSize' = batchSize
  /\ dsResult' = buildDataset(text, tokenizer, seqLen, batchSize)
  /\ UNCHANGED <<tokVars, trainVars, genVars>>
  /\ UNCHANGED extVars

DataNext ==
  /\ ~dsCalled
  /\ \E text \in DataTexts, seqLen \in 1..MaxSeqLen, batchSize \in 1..MaxBatchSize :
       BuildDataset(text, seqLen, batchSize)

SpecData == DataInit /\ [][DataNext]_vars

(***************************************************************************)
(* One trainModel call at a time on a fresh model.  The call runs from one *)
(* await to the next; each action below is a piece of that run, and only   *)
(* in a state with trainPc = "yield" has the call given up control.        *)
(***************************************************************************)
\* A corpus of the given length: the alphabet repeated
TrainText(len) == [i \in 1..len |-> 65 + ((i - 1) % NumChars)]

TrainConfigs ==
  [batchSize : 1..MaxBatchSize, epochs : 0..MaxEpochs, learningRate : {1},
   seqLen : 1..MaxSeqLen]

TrainInit ==
  TokFrom(KnownCorpus) /\ DsNone /\ TrainNone /\ modelMaxLen = 1 /\ GenNone /\ ExtNone

StepsPerEpoch == dataset.numSamples \div trainConfig.batchSize

\* trainModel(model, tokenizer, corpus, config, onLog) up to the epoch loop
TrainStart(corpus, config) ==
  /\ trainPc \in {"idle", "returned"}
  /\ trainCorpus' = corpus
  /\ trainConfig' = config
  /\ params0' = params
  /\ fwdCount' = 0
  /\ totalLoss' = 0
  /\ step' = 0
  /\ LET built == buildDataset(corpus, tokenizer, config.seqLen, config.batchSize)
     IN  IF built.kind = "error"
         THEN LET out == DatasetErrorCaught(built.message)
              IN  /\ trainPc' = out.pc
                  /\ events' = <<LogPreparing(Len(corpus))>> \o out.logged
                  /\ dataset' = NoResult
                  /\ epoch' = 0
         ELSE /\ trainPc' = "epoch"
              /\ events' = <<LogPreparing(Len(corpus)),
                             LogDataset(built.numSamples,
                                        built.numSamples \div config.batchSize)>>
              /\ dataset' = built
              /\ epoch' = 1
  /\ UNCHANGED <<params, tokVars, dsVars, genVars>>
  /\ UNCHANGED extVars

\* for (let epoch = 1; epoch <= config.epochs; epoch++) { let totalLoss = 0; ... }
\* and, past the loop, the final onLog
TrainEpoch ==
  /\ trainPc = "epoch"
  /\ IF epoch <= trainConfig.epochs
     THEN /\ totalLoss' = 0
          /\ step' = 0
          /\ trainPc' = "step"
          /\ UNCHANGED events
     ELSE /\ events' = Append(events, LogComplete)
          /\ trainPc' = "complete"
          /\ UNCHANGED <<totalLoss, step>>
  /\ UNCHANGED <<params, trainCorpus, trainConfig, dataset, epoch, params0, fwdCount,
                 tokVars, dsVars, genVars>>
  /\ UNCHANGED extVars

\* One pass of the batch loop: the optimization step and the yield test
TrainBatch ==
  /\ trainPc = "step"
  /\ step < StepsPerEpoch
  /\ LET start == BatchStart(step, trainConfig.batchSize)
         batchInputs == SliceRows(dataset.inputs, start, trainConfig.batchSize)
         batchTargets == SliceRows(dataset.targets, start, trainConfig.batchSize)
         lossVal == LossValue(params, batchInputs, batchTargets)
         grads == Grads(params, batchInputs, batchTargets)
     IN  /\ fwdCount' = fwdCount + 1
         /\ \/ \* the forward pass, the loss or the gradient throws
               /\ params' = ParamsAfterThrow(params, batchInputs, batchTargets,
                                             trainConfig.learningRate)
               /\ events' = Append(events,
                              [kind |-> "throw", epoch |-> epoch, step |-> step])
               /\ trainPc' = "failed"
               /\ UNCHANGED <<totalLoss, step>>
            \/ \* the gradients are applied
               /\ params' = ApplyGradients(params, grads, trainConfig.learningRate)
               /\ events' = Append(events,
                              [kind |-> "update", epoch |-> epoch, step |-> step,
                               inputs |-> batchInputs, targets |-> batchTargets,
                               loss |-> lossVal])
               /\ totalLoss' = totalLoss + lossVal
               /\ IF step % YieldEvery = 0
                  THEN trainPc' = "yield" /\ step' = step
                  ELSE trainPc' = "step" /\ step' = step + 1
  /\ UNCHANGED <<trainCorpus, trainConfig, dataset, epoch, params0, tokVars, dsVars, genVars>>
  /\ UNCHANGED extVars

\* The timeout fires: the loop goes on with step++
TrainResume ==
  /\ trainPc = "yield"
  /\ trainPc' = "step"
  /\ step' = step + 1
  /\ UNCHANGED <<params, trainCorpus, trainConfig, dataset, epoch, totalLoss, events,
                 params0, fwdCount, tokVars, dsVars, genVars>>
  /\ UNCHANGED extVars

\* The batch loop is over: the epoch's onLog and epoch++
TrainEpochEnd ==
  /\ trainPc = "step"
  /\ step >= StepsPerEpoch
  /\ events' = Append(events,
                 LogEpoch(epoch, trainConfig.epochs, ToFixed4(totalLoss, StepsPerEpoch)))
  /\ epoch' = epoch + 1
  /\ trainPc' = "epoch"
  /\ UNCHANGED <<params, trainCorpus, trainConfig, dataset, step, totalLoss, params0,
                 fwdCount, tokVars, dsVars, genVars>>
  /\ UNCHANGED extVars

TrainNext ==
  \/ \E len \in 0..MaxTrainLen, config \in TrainConfigs : TrainStart(TrainText(len), config)
  \/ TrainEpoch
  \/ TrainBatch
  \/ TrainResume
  \/ TrainEpochEnd

SpecTrain == TrainInit /\ [][TrainNext]_vars

(***************************************************************************)
(* One generateText call on a model whose variables all hold the same      *)
(* weight.  The call awaits once per token: in a state with genPc =        *)
(* "yield" it has given up control.                                        *)
(***************************************************************************)
\* A prompt of the given length: the alphabet repeated from some character on
PromptText(len, offset) == [i \in 1..len |-> 65 + ((offset + i - 1) % NumChars)]

Prompts == {PromptText(len, offset) : len \in 0..MaxPromptLen, offset \in 0..(NumChars - 1)}

GenConfigs == [maxNewTokens : 0..MaxNewTokens, temperature : {0, 1, 3}, topK : {0, 1, 2, 5}]

GenInit ==
  /\ TokFrom(KnownCorpus)
  /\ DsNone
  /\ \E w \in 0..MaxWeight :
       /\ params = [n \in VariableNames(NumLayers) |-> w]
       /\ params0 = params
  /\ trainPc = "idle"
  /\ trainCorpus = <<>>
  /\ trainConfig = NoConfig
  /\ dataset = NoResult
  /\ epoch = 0
  /\ step = 0
  /\ totalLoss = 0
  /\ events = <<>>
  /\ fwdCount = 0
  /\ modelMaxLen \in 1..MaxContext
  /\ GenNone
  /\ ExtNone

\* generateText(model, tokenizer, prompt, config, onStep) up to the loop
GenStart(prompt, config) ==
  /\ genPc = "idle"
  /\ genPc' = "loop"
  /\ genPrompt' = prompt
  /\ genConfig' = config
  /\ tokenIds' = InitialIds(tokenizer, prompt)
  /\ genIds0' = InitialIds(tokenizer, prompt)
  /\ resultText' = <<>>
  /\ genI' = 0
  /\ UNCHANGED <<modelMaxLen, contexts, sampled, callbacks, genReturn, genYields,
                 tokVars, dsVars, trainVars>>
  /\ UNCHANGED extVars

\* One pass of the loop body, up to the await; r is the value of Math.random()
GenStep(r) ==
  /\ genPc = "loop"
  /\ LoopContinues(genI, genConfig.maxNewTokens)
  /\ LET contextIds == ClipContext(tokenIds, modelMaxLen)
         lastLogits == LastLogits(params, contextIds, tokenizer.vocabSize)
         nextId == sampleFromLogits(lastLogits, genConfig.temperature, genConfig.topK, r)
         nextChar == decode(tokenizer, <<nextId>>)
     IN  /\ contexts' = Append(contexts, contextIds)
         /\ sampled' = Append(sampled, nextId)
         /\ tokenIds' = Append(tokenIds, nextId)
         /\ resultText' = resultText \o nextChar
         /\ callbacks' = Append(callbacks, nextChar)
  /\ IF YieldAfterToken(genI)
     THEN genPc' = "yield" /\ genYields' = genYields + 1 /\ genI' = genI
     ELSE genPc' = "loop" /\ genYields' = genYields /\ genI' = genI + 1
  /\ UNCHANGED <<modelMaxLen, genPrompt, genConfig, genIds0, genReturn,
                 tokVars, dsVars, trainVars>>
  /\ UNCHANGED extVars

\* model.forward throws: the exception leaves generateText
GenThrow ==
  /\ genPc = "loop"
  /\ LoopContinues(genI, genConfig.maxNewTokens)
  /\ contexts' = Append(contexts, ClipContext(tokenIds, modelMaxLen))
  /\ genPc' = "failed"
  /\ UNCHANGED <<modelMaxLen, genPrompt, genConfig, tokenIds, resultText, genI, genIds0,
                 sampled, callbacks, genReturn, genYields, tokVars, dsVars, trainVars>>
  /\ UNCHANGED extVars

\* The timeout fires: i++
GenResume ==
  /\ genPc = "yield"
  /\ genPc' = "loop"
  /\ genI' = genI + 1
  /\ UNCHANGED <<modelMaxLen, genPrompt, genConfig, tokenIds, resultText, genIds0,
                 contexts, sampled, callbacks, genReturn, genYields,
                 tokVars, dsVars, trainVars>>
  /\ UNCHANGED extVars

\* The loop is over: return resultText
GenReturn ==
  /\ genPc = "loop"
  /\ ~LoopContinues(genI, genConfig.maxNewTokens)
  /\ genPc' = "done"
  /\ genReturn' = resultText
  /\ UNCHANGED <<modelMaxLen, genPrompt, genConfig, tokenIds, resultText, genI, genIds0,
                 contexts, sampled, callbacks, genYields, tokVars, dsVars, trainVars>>
  /\ UNCHANGED extVars

GenNext ==
  \/ \E prompt \in Prompts, config \in GenConfigs : GenStart(prompt, config)
  \/ \E r \in 0..(ProbUnit - 1) : GenStep(r)
  \/ GenThrow
  \/ GenResume
  \/ GenReturn

SpecGen == GenInit /\ [][GenNext]_vars

(***************************************************************************)
(* sampleFromLogits called on its own, on every logit vector over a        *)
(* vocabulary of up to MaxVocab ids.                                       *)
(***************************************************************************)
LogitVectors ==
  UNION {[0..(size - 1) -> 0..MaxLogit] : size \in 1..MaxVocab}

Temperatures == {0, 3}

TopKs == (-1)..(MaxVocab + 1)

SampInit ==
  TokNone /\ DsNone /\ TrainNone /\ modelMaxLen = 1 /\ GenNone /\ ExtNone

\* sampleFromLogits(logits, temperature, topK), Math.random() returning r
Sample(logits, temperature, topK, r) ==
  /\ ~sampCalled
  /\ sampCalled' = TRUE
  /\ sampLogits' = logits
  /\ sampTemperature' = temperature
  /\ sampTopK' = topK
  /\ sampR' = r
  /\ sampResult' = sampleFromLogits(logits, temperature, topK, r)
  /\ UNCHANGED <<tokVars, dsVars, trainVars, genVars, persistVars, ctorVars, appVars,
               lateVars>>

SampNext ==
  /\ ~sampCalled
  /\ \E logits \in LogitVectors, temperature \in Temperatures, topK \in TopKs,
        r \in 0..(ProbUnit - 1) :
       Sample(logits, temperature, topK, r)

SpecSample == SampInit /\ [][SampNext]_vars

(***************************************************************************)
(* Persistence on its own: one live model and its tokenizer are exported;  *)
(* the saved state is then imported into the same model, into a fresh      *)
(* model built from the saved config, or into a model of another           *)
(* architecture, and the tokenizer is rebuilt from its serialized form.    *)
(* exportModelState awaits the data of one variable at a time.             *)
(***************************************************************************)
\* The first n letters, last letter first
PersistCorpus(n) == [i \in 1..n |-> 65 + n - i]

PersistCorpora == {PersistCorpus(n) : n \in {0, 1, MaxPersistChars}}

PersistConfigs(vocabSizes) ==
  [vocabSize : vocabSizes, dModel : {2}, numHeads : {1}, dff : {2, 3},
   numLayers : 1..MaxLayers, maxLen : {2}, dropoutRate : {0}]

\* Variables that all differ: the k-th registered variable holds base + k
SeededParams(numLayers, base) ==
  [n \in VariableNames(numLayers) |->
     base + (CHOOSE k \in 1..Len(VariableOrder(numLayers)) : VariableOrder(numLayers)[k] = n)]

PersistInit ==
  /\ \E corpus \in PersistCorpora : TokFrom(corpus)
  /\ DsNone
  /\ modelConfig \in PersistConfigs({tokenizer.vocabSize})
  /\ \E w \in 0..MaxWeight :
       /\ params = SeededParams(modelConfig.numLayers, w)
       /\ params0 = params
  /\ trainPc = "idle"
  /\ trainCorpus = <<>>
  /\ trainConfig = NoConfig
  /\ dataset = NoResult
  /\ epoch = 0
  /\ step = 0
  /\ totalLoss = 0
  /\ events = <<>>
  /\ fwdCount = 0
  /\ modelMaxLen = modelConfig.maxLen
  /\ GenNone
  /\ SampNone
  /\ expPc = "idle"
  /\ expWeights = <<>>
  /\ saved = NoSavedState
  /\ impKind = "none"
  /\ impBefore = NoModel
  /\ impAfter = NoModel
  /\ restoredBuilt = FALSE
  /\ restored = NoTokenizer
  /\ trained = FALSE
  /\ CtorNone
  /\ AppNone
  /\ LateNone

\* exportModelState(model, tokenizer) up to the loop over the variables
ExportStart ==
  /\ expPc = "idle"
  /\ expPc' = "weights"
  /\ expWeights' = <<>>
  /\ UNCHANGED <<modelConfig, saved, impKind, impBefore, impAfter, restoredBuilt,
                 restored, trained>>
  /\ UNCHANGED <<tokVars, dsVars, trainVars, genVars, sampVars, ctorVars, appVars,
               lateVars>>

\* One pass of the loop: await variable.data() and the entry written
ExportVariable ==
  /\ expPc = "weights"
  /\ Len(expWeights) < Len(VariableOrder(modelConfig.numLayers))
  /\ LET name == VariableOrder(modelConfig.numLayers)[Len(expWeights) + 1]
     IN  expWeights' = Append(expWeights,
                         [name |-> name, spec |-> ExportEntry(modelConfig, params, name)])
  /\ UNCHANGED <<modelConfig, expPc, saved, impKind, impBefore, impAfter, restoredBuilt,
                 restored, trained>>
  /\ UNCHANGED <<tokVars, dsVars, trainVars, genVars, sampVars, ctorVars, appVars,
               lateVars>>

\* Past the loop: the tokenizer is serialized and the state returned
ExportFinish ==
  /\ expPc = "weights"
  /\ Len(expWeights) = Len(VariableOrder(modelConfig.numLayers))
  /\ saved' = [config |-> modelConfig,
               tokenizer |-> SerializeTokenizer(tokenizer),
               weights |-> expWeights]
  /\ expPc' = "done"
  /\ UNCHANGED <<modelConfig, expWeights, impKind, impBefore, impAfter, restoredBuilt,
                 restored, trained>>
  /\ UNCHANGED <<tokVars, dsVars, trainVars, genVars, sampVars, ctorVars, appVars,
               lateVars>>

\* An optimizer step on the live model after the export
Retrain ==
  /\ expPc = "done"
  /\ ~trained
  /\ impKind = "none"
  /\ trained' = TRUE
  /\ params' = ApplyGradients(params, Grads(params, <<<<1>>>>, <<<<2>>>>), 1)
  /\ UNCHANGED <<modelConfig, expPc, expWeights, saved, impKind, impBefore, impAfter,
                 restoredBuilt, restored>>
  /\ UNCHANGED <<trainPc, trainCorpus, trainConfig, dataset, epoch, step, totalLoss,
                 events, params0, fwdCount>>
  /\ UNCHANGED <<tokVars, dsVars, genVars, sampVars, ctorVars, appVars,
               lateVars>>

\* importModelState(model, state) with model the live model
ImportSame ==
  /\ expPc = "done"
  /\ impKind = "none"
  /\ LET model == [config |-> modelConfig, vars |-> params]
     IN  /\ impBefore' = model
         /\ impAfter' = importModelState(model, saved)
         /\ params' = importModelState(model, saved).vars
  /\ impKind' = "same"
  /\ UNCHANGED <<modelConfig, expPc, expWeights, saved, restoredBuilt, restored, trained>>
  /\ UNCHANGED <<trainPc, trainCorpus, trainConfig, dataset, epoch, step, totalLoss,
                 events, params0, fwdCount>>
  /\ UNCHANGED <<tokVars, dsVars, genVars, sampVars, ctorVars, appVars,
               lateVars>>

\* importModelState(new TransformerModel(state.config), state)
ImportFresh ==
  /\ expPc = "done"
  /\ impKind = "none"
  /\ LET model == NewTransformerModel(saved.config)
     IN  /\ impBefore' = model
         /\ impAfter' = importModelState(model, saved)
  /\ impKind' = "fresh"
  /\ UNCHANGED <<modelConfig, expPc, expWeights, saved, restoredBuilt, restored, trained>>
  /\ UNCHANGED <<tokVars, dsVars, trainVars, genVars, sampVars, ctorVars, appVars,
               lateVars>>

\* importModelState(model, state) with a model of any architecture
ImportOther(config) ==
  /\ expPc = "done"
  /\ impKind = "none"
  /\ LET model == [config |-> config, vars |-> SeededParams(config.numLayers, 100)]
     IN  /\ impBefore' = model
         /\ impAfter' = importModelState(model, saved)
  /\ impKind' = "other"
  /\ UNCHANGED <<modelConfig, expPc, expWeights, saved, restoredBuilt, restored, trained>>
  /\ UNCHANGED <<tokVars, dsVars, trainVars, genVars, sampVars, ctorVars, appVars,
               lateVars>>

\* importTokenizer(state.tokenizer)
ImportTokenizer ==
  /\ expPc = "done"
  /\ ~restoredBuilt
  /\ restoredBuilt' = TRUE
  /\ restored' = importTokenizer(saved.tokenizer)
  /\ UNCHANGED <<modelConfig, expPc, expWeights, saved, impKind, impBefore, impAfter,
                 trained>>
  /\ UNCHANGED <<tokVars, dsVars, trainVars, genVars, sampVars, ctorVars, appVars,
               lateVars>>

PersistNext ==
  \/ ExportStart
  \/ ExportVariable
  \/ ExportFinish
  \/ Retrain
  \/ ImportSame
  \/ ImportFresh
  \/ \E config \in PersistConfigs({2, tokenizer.vocabSize}) : ImportOther(config)
  \/ ImportTokenizer

SpecPersist == PersistInit /\ [][PersistNext]_vars

(***************************************************************************)
(* new TransformerModel(config) on its own, for every architecture.        *)
(***************************************************************************)
ArchConfigs ==
  [vocabSize : {2, 3}, dModel : 1..MaxDModel, numHeads : 1..MaxHeads, dff : {2, 3},
   numLayers : 0..MaxLayers, maxLen : {2}, dropoutRate : {0}]

CtorInit ==
  TokNone /\ DsNone /\ TrainNone /\ modelMaxLen = 1 /\ GenNone /\ ExtNone

\* new TransformerModel(config)
ConstructModel(config) ==
  /\ ~ctorCalled
  /\ ctorCalled' = TRUE
  /\ ctorConfig' = config
  /\ ctorResult' = ConstructTransformerModel(config)
  /\ UNCHANGED <<tokVars, dsVars, trainVars, genVars, sampVars, persistVars, appVars,
               lateVars>>

CtorNext ==
  /\ ~ctorCalled
  /\ \E config \in ArchConfigs : ConstructModel(config)

SpecCtor == CtorInit /\ [][CtorNext]_vars

(***************************************************************************)
(* The application (App): its handlers and the calls they start.  A        *)
(* handler runs from one await to the next without interruption; between   *)
(* two such runs the user may act and timers may fire.  A trainModel or    *)
(* generateText call is a record [kind, model, left, end]: the model it    *)
(* runs on, the yields it still has to make, and how it ended ("none"      *)
(* while it is in progress, suspended at a yield).                         *)
(***************************************************************************)
\* disabled={status !== RunStatus.READY} on the Train and the Generate button
ButtonEnabled(st) == st = "READY"

\* A status restored on the success path only
StatusAfterSuccessOnly(end, st) == IF end = "threw" THEN st ELSE "READY"

\* finally { setStatus(RunStatus.READY) }
StatusAfterCall(end, st) == "READY"

\* catch (e) { addLog(`Training Error: ...`) } / addLog(`Generation Error: ...`)
ErrorLog(kind) ==
  IF kind = "train" THEN "Training Error: msg" ELSE "Generation Error: msg"

\* What the handler and the call log from the click to the first batch or token
StartLogs(kind, end) ==
  IF kind = "generate" THEN <<"Generating text... Temp: t">>
  ELSE IF end = "dataset-error"
       THEN <<"Starting training session...", "Preparing dataset from N chars...">>
       ELSE <<"Starting training session...", "Preparing dataset from N chars...",
              "Dataset created: n samples, s steps/epoch.">>

\* onLog(`Epoch ...`) when the stretch of a training call closes an epoch
EpochLogs(kind, epochEnds) ==
  IF kind = "train" /\ epochEnds THEN <<"Epoch e/E - Loss: x">> ELSE <<>>

\* What the handler and the call log as the call ends in the given way
EndLogs(kind, end) ==
  IF end = "threw" THEN <<ErrorLog(kind)>>
  ELSE IF end = "dataset-error" THEN <<"Error: msg">>
  ELSE IF kind = "train" THEN <<"Training complete.">>
  ELSE <<"Generation complete.">>

\* addLog(msg) for each of the messages: logs is kept as a bag, how often each
\* message was logged; the order of the lines on the screen is not modelled
AddLogs(l, msgs) ==
  l (+) [m \in Range(msgs) |-> Cardinality({i \in 1..Len(msgs) : msgs[i] = m})]

\* Whether the call is suspended at a yield
InProgress(call) == call.end = "none"

AppInit ==
  /\ TokNone /\ DsNone /\ TrainNone /\ modelMaxLen = 1 /\ GenNone
  /\ SampNone /\ PersistNone /\ CtorNone /\ LateNone
  /\ status = "INITIALIZING"
  /\ modelRef = 0
  /\ tokenizerRef = 0
  /\ calls = <<>>
  /\ initPending = 1
  /\ loadPending = FALSE
  /\ savePending = FALSE
  /\ logs = AddLogs(EmptyBag, <<"Initializing system...", "Loading TensorFlow.js backend...">>)
  /\ objects = 0
  /\ userActions = 0

AppFrame == UNCHANGED <<tokVars, dsVars, trainVars, genVars, sampVars, persistVars, ctorVars,
               lateVars>>

\* initSystem past await initBackend(): the tokenizer and the model are built
InitSystemDone ==
  /\ initPending > 0
  /\ initPending' = initPending - 1
  /\ \/ /\ logs' = AddLogs(logs, <<"Backend loaded: WebGL/CPU ready.", "Building Tokenizer...",
                             "Tokenizer ready. Vocab size: n",
                             "Initializing [SIZE] Transformer...",
                             "Weights initialized (Random Normal). System Ready.">>)
        /\ tokenizerRef' = objects + 1
        /\ modelRef' = objects + 2
        /\ objects' = objects + 2
        /\ status' = "READY"
     \/ \* initBackend() rejects
        /\ logs' = AddLogs(logs, <<"CRITICAL ERROR: msg">>)
        /\ UNCHANGED <<tokenizerRef, modelRef, objects, status>>
     \/ \* new TransformerModel throws
        /\ logs' = AddLogs(logs, <<"Backend loaded: WebGL/CPU ready.", "Building Tokenizer...",
                             "Tokenizer ready. Vocab size: n",
                             "Initializing [SIZE] Transformer...", "CRITICAL ERROR: msg">>)
        /\ tokenizerRef' = objects + 1
        /\ objects' = objects + 1
        /\ UNCHANGED <<modelRef, status>>
  /\ UNCHANGED <<calls, loadPending, savePending, userActions>>
  /\ AppFrame

\* The model-size select changes: initSystem is rebuilt and the effect runs it
\* up to await initBackend()
ChangeModelSize ==
  /\ userActions < MaxUserActions
  /\ userActions' = userActions + 1
  /\ initPending' = initPending + 1
  /\ UNCHANGED <<status, modelRef, tokenizerRef, calls, loadPending, savePending, logs,
                 objects>>
  /\ AppFrame

\* handleTrain or handleGenerate, from the click to the first await that
\* suspends it, or to its end when the call ends without suspending
HandleStart(kind, end, left) ==
  /\ ButtonEnabled(status)
  /\ userActions < MaxUserActions
  /\ modelRef # 0 /\ tokenizerRef # 0
  /\ kind = "generate" => end # "dataset-error"
  /\ userActions' = userActions + 1
  /\ calls' = Append(calls, [kind |-> kind, model |-> modelRef,
                             left |-> IF end = "none" THEN left ELSE 0, end |-> end])
  /\ IF end = "none"
     THEN /\ status' = (IF kind = "train" THEN "TRAINING" ELSE "GENERATING")
          /\ logs' = AddLogs(logs, StartLogs(kind, end))
     ELSE /\ status' = StatusAfterCall(end, IF kind = "train" THEN "TRAINING" ELSE "GENERATING")
          /\ logs' = AddLogs(logs, StartLogs(kind, end) \o EndLogs(kind, end))
  /\ UNCHANGED <<modelRef, tokenizerRef, initPending, loadPending, savePending, objects>>
  /\ AppFrame

\* The timer of a suspended call fires: the call runs to its next yield, or to
\* its end, and then its handler runs to its own end.  A training call that
\* completes has just closed its last epoch
CallResume(i, end, epochEnds) ==
  /\ i \in DOMAIN calls
  /\ InProgress(calls[i])
  /\ end \in {"none", "complete", "threw"}
  /\ end = "none" => calls[i].left > 0
  /\ end = "complete" => calls[i].left = 0
  /\ epochEnds => calls[i].kind = "train" /\ end # "threw"
  /\ (calls[i].kind = "train" /\ end = "complete") => epochEnds
  /\ calls' = [calls EXCEPT ![i].end = end,
                            ![i].left = IF end = "none" THEN @ - 1 ELSE @]
  /\ IF end = "none"
     THEN /\ logs' = AddLogs(logs, EpochLogs(calls[i].kind, epochEnds))
          /\ UNCHANGED status
     ELSE /\ status' = StatusAfterCall(end, status)
          /\ logs' = AddLogs(logs, EpochLogs(calls[i].kind, epochEnds)
                                     \o EndLogs(calls[i].kind, end))
  /\ UNCHANGED <<modelRef, tokenizerRef, initPending, loadPending, savePending, objects,
                 userActions>>
  /\ AppFrame

\* handleLoad up to await pickJsonFile()
HandleLoadStart ==
  /\ userActions < MaxUserActions
  /\ ~loadPending
  /\ userActions' = userActions + 1
  /\ loadPending' = TRUE
  /\ logs' = AddLogs(logs, <<"Waiting for file selection...">>)
  /\ UNCHANGED <<status, modelRef, tokenizerRef, calls, initPending, savePending, objects>>
  /\ AppFrame

\* handleLoad past await pickJsonFile()
HandleLoadDone ==
  /\ loadPending
  /\ loadPending' = FALSE
  /\ \/ /\ logs' = AddLogs(logs, <<"Loading state from t...", "Tokenizer restored. Vocab: n",
                             "Restored config: d dModel / n Layers",
                             "Weights restored successfully.">>)
        /\ tokenizerRef' = objects + 1
        /\ modelRef' = objects + 2
        /\ objects' = objects + 2
        /\ status' = "READY"
     \/ \* pickJsonFile() rejects or JSON.parse throws
        /\ logs' = AddLogs(logs, <<"Load Error: msg">>)
        /\ UNCHANGED <<tokenizerRef, modelRef, objects, status>>
     \/ \* new TransformerModel or importModelState throws
        /\ logs' = AddLogs(logs, <<"Loading state from t...", "Tokenizer restored. Vocab: n",
                             "Load Error: msg">>)
        /\ tokenizerRef' = objects + 1
        /\ objects' = objects + 1
        /\ UNCHANGED <<modelRef, status>>
  /\ UNCHANGED <<calls, initPending, savePending, userActions>>
  /\ AppFrame

\* handleSave up to await exportModelState()
HandleSaveStart ==
  /\ userActions < MaxUserActions
  /\ ~savePending
  /\ modelRef # 0 /\ tokenizerRef # 0
  /\ userActions' = userActions + 1
  /\ savePending' = TRUE
  /\ logs' = AddLogs(logs, <<"Serializing model state...">>)
  /\ UNCHANGED <<status, modelRef, tokenizerRef, calls, initPending, loadPending, objects>>
  /\ AppFrame

\* handleSave past await exportModelState()
HandleSaveDone ==
  /\ savePending
  /\ savePending' = FALSE
  /\ \/ logs' = AddLogs(logs, <<"Model state downloaded.">>)
     \/ logs' = AddLogs(logs, <<"Save Error: msg">>)
  /\ UNCHANGED <<status, modelRef, tokenizerRef, calls, initPending, loadPending, objects,
                 userActions>>
  /\ AppFrame

AppNext ==
  \/ InitSystemDone
  \/ ChangeModelSize
  \/ \E kind \in {"train", "generate"},
        end \in {"none", "dataset-error", "complete", "threw"},
        left \in 0..MaxSegments :
       HandleStart(kind, end, left)
  \/ \E i \in 1..MaxUserActions, end \in {"none", "complete", "threw"},
        epochEnds \in BOOLEAN :
       CallResume(i, end, epochEnds)
  \/ HandleLoadStart
  \/ HandleLoadDone
  \/ HandleSaveStart
  \/ HandleSaveDone

SpecApp == AppInit /\ [][AppNext]_vars

(***************************************************************************)
(* TransformerModel.forward: the mask and the scores of every block        *)
(***************************************************************************)
FwdInputs == SeqsUpTo(0..(MaxVocab - 1), MaxFwdLen) \ {<<>>}

FwdInit ==
  TokNone /\ DsNone /\ TrainNone /\ modelMaxLen = 1 /\ GenNone /\ ExtNone

FwdFrame ==
  UNCHANGED <<tokVars, dsVars, trainVars, genVars, sampVars, persistVars, ctorVars,
              appVars, shVars>>

\* forward up to the loop over the blocks: embedding, positional encoding,
\* const mask = createLookAheadMask(seqLen)
ForwardStart(ids, numLayers) ==
  /\ fwdPc = "idle"
  /\ fwdPc' = "blocks"
  /\ fwdIds' = ids
  /\ fwdLayers' = numLayers
  /\ fwdX' = Embed(ids)
  /\ fwdMask' = createLookAheadMask(Len(ids))
  /\ fwdMaskCalls' = fwdMaskCalls + 1
  /\ fwdBlocks' = <<>>
  /\ FwdFrame

\* One pass of `for (const block of this.encoderBlocks)`:
\* block.forward(x, training, mask) -> mha.forward(x, x, x, mask) ->
\* scaledDotProductAttention(Q, K, V, mask)
ForwardBlock ==
  /\ fwdPc = "blocks"
  /\ Len(fwdBlocks) < fwdLayers
  /\ LET raw == RawScores(fwdX)
         scores == AddMask(raw, fwdMask, TRUE)
     IN  /\ fwdBlocks' = Append(fwdBlocks, [mask |-> fwdMask, raw |-> raw, scores |-> scores])
         /\ fwdX' = BlockOutput(fwdX, scores)
  /\ UNCHANGED <<fwdPc, fwdIds, fwdLayers, fwdMask, fwdMaskCalls>>
  /\ FwdFrame

\* The loop is over: the final projection and the return
ForwardReturn ==
  /\ fwdPc = "blocks"
  /\ Len(fwdBlocks) = fwdLayers
  /\ fwdPc' = "done"
  /\ UNCHANGED <<fwdIds, fwdLayers, fwdX, fwdMask, fwdMaskCalls, fwdBlocks>>
  /\ FwdFrame

FwdNext ==
  \/ fwdPc = "idle" /\ \E ids \in FwdInputs, numLayers \in 0..MaxLayers :
       ForwardStart(ids, numLayers)
  \/ ForwardBlock
  \/ ForwardReturn

SpecForward == FwdInit /\ [][FwdNext]_vars

(***************************************************************************)
(* One model shared by a trainModel call, a generateText call, an          *)
(* exportModelState call, an importModelState call and a direct forward or *)
(* predict call.  JavaScript runs one of them at a time, from one await to *)
(* the next: a call starts or resumes only where the others are suspended, *)
(* trainModel at its await every YieldEvery steps, generateText at its     *)
(* await after every token, exportModelState at its await of               *)
(* variable.data() for every variable.                                     *)
(***************************************************************************)
TrainSuspended == trainPc \in {"idle", "yield", "complete", "returned", "failed"}

GenSuspended == genPc \in {"idle", "yield", "done", "failed"}

ShTrainText == TrainText(3)

ShTrainConfig == [batchSize |-> 1, epochs |-> 1, learningRate |-> 1, seqLen |-> 1]

ShPrompt == PromptText(1, 0)

ShGenConfig == [maxNewTokens |-> 1, temperature |-> 1, topK |-> 1]

ShInputs == {<<>>, <<2, 1>>}

\* A model with one encoder block, over the vocabulary of the tokenizer
ShConfig(vocabSize) ==
  [vocabSize |-> vocabSize, dModel |-> 2, numHeads |-> 1, dff |-> 2, numLayers |-> 1,
   maxLen |-> 2, dropoutRate |-> 0]

ShInit ==
  /\ TokFrom(KnownCorpus)
  /\ DsNone
  /\ modelConfig = ShConfig(tokenizer.vocabSize)
  /\ params = SeededParams(modelConfig.numLayers, 0)
  /\ params0 = params
  /\ trainPc = "idle"
  /\ trainCorpus = <<>>
  /\ trainConfig = NoConfig
  /\ dataset = NoResult
  /\ epoch = 0
  /\ step = 0
  /\ totalLoss = 0
  /\ events = <<>>
  /\ fwdCount = 0
  /\ modelMaxLen = modelConfig.maxLen
  /\ GenNone
  /\ SampNone
  /\ expPc = "idle"
  /\ expWeights = <<>>
  /\ saved = NoSavedState
  /\ impKind = "none"
  /\ impBefore = NoModel
  /\ impAfter = NoModel
  /\ restoredBuilt = FALSE
  /\ restored = NoTokenizer
  /\ trained = FALSE
  /\ CtorNone
  /\ AppNone
  /\ LateNone

\* A piece of the trainModel call
ShTrain ==
  /\ GenSuspended
  /\ \/ trainPc = "idle" /\ TrainStart(ShTrainText, ShTrainConfig)
     \/ TrainEpoch
     \/ TrainBatch
     \/ TrainResume
     \/ TrainEpochEnd

\* A piece of the generateText call
ShGenerate ==
  /\ TrainSuspended
  /\ \/ GenStart(ShPrompt, ShGenConfig)
     \/ \E r \in 0..(ProbUnit - 1) : GenStep(r)
     \/ GenThrow
     \/ GenResume
     \/ GenReturn

\* A piece of the exportModelState call; the call is made once trainModel
\* has been called
ShExport ==
  /\ TrainSuspended
  /\ GenSuspended
  /\ \/ trainPc # "idle" /\ ExportStart
     \/ ExportVariable
     \/ ExportFinish

\* importModelState(model, state) with the state exported before
ShImport ==
  /\ TrainSuspended
  /\ GenSuspended
  /\ ImportSame

ShFrame ==
  UNCHANGED <<tokVars, dsVars, trainPc, trainCorpus, trainConfig, dataset, epoch, step,
              totalLoss, events, params0, fwdCount, genVars, sampVars, persistVars,
              ctorVars, appVars, fwdVars>>

\* model.forward(tf.tensor2d([ids]), false).logits, last position
ShForward(ids) ==
  /\ TrainSuspended
  /\ GenSuspended
  /\ shOp = "none"
  /\ shOp' = "forward"
  /\ shIds' = ids
  /\ shOut' = LastLogits(params, ids, tokenizer.vocabSize)
  /\ params' = ParamsAfterForward(params, ids)
  /\ ShFrame

\* model.predict(ids).predictedId; forward runs unless ids is empty
ShPredict(ids) ==
  /\ TrainSuspended
  /\ GenSuspended
  /\ shOp = "none"
  /\ shOp' = "predict"
  /\ shIds' = ids
  /\ shOut' = predict(params, ids, tokenizer.vocabSize)
  /\ params' = IF Len(ids) = 0 THEN params ELSE ParamsAfterForward(params, ids)
  /\ ShFrame

ShNext ==
  \/ ShTrain
  \/ ShGenerate
  \/ ShExport
  \/ ShImport
  \/ shOp = "none" /\ \E ids \in ShInputs \ {<<>>} : ShForward(ids)
  \/ shOp = "none" /\ \E ids \in ShInputs : ShPredict(ids)

SpecShared == ShInit /\ [][ShNext]_vars

\* The characters of the corpus the tokenizer was built from
CorpusChars == Range(tokCorpus)

(***************************************************************************)
(* C1: for a tokenizer built from a corpus, every string s whose           *)
(* characters all occur in that corpus satisfies decode(encode(s)) = s;    *)
(* in particular a decode call given the result of an encode call returns  *)
(* the text that was encoded.                                              *)
(***************************************************************************)
C1_RoundTrip ==
  tokBuilt =>
    /\ \A s \in Texts :
         Range(s) \subseteq CorpusChars => decode(tokenizer, encode(tokenizer, s)) = s
    /\ (encIds # <<>> /\ decIds = encIds /\ Range(encText) \subseteq CorpusChars)
         => decText = encText

C1_Witness ==
  /\ tokBuilt
  /\ Cardinality(CorpusChars) >= 2
  /\ Len(encText) >= 2
  /\ Range(encText) = CorpusChars
  /\ decIds = encIds
  /\ decText = encText

(***************************************************************************)
(* C2: for a tokenizer built from a corpus with N distinct characters,     *)
(* vocabSize = N + 2, id 0 is PAD, id 1 is UNK, the k-th character in      *)
(* sorted order has id k + 2, and vocab and inverseVocab are mutually      *)
(* inverse bijections between the N + 2 keys and the ids 0..vocabSize-1.   *)
(***************************************************************************)
C2_Vocabulary ==
  tokBuilt =>
    LET N == Cardinality(CorpusChars)
        keys == {PAD, UNK} \cup {<<c>> : c \in CorpusChars}
    IN  /\ tokenizer.vocabSize = N + 2
        /\ DOMAIN tokenizer.vocab = keys
        /\ DOMAIN tokenizer.inverseVocab = 0..(tokenizer.vocabSize - 1)
        /\ tokenizer.vocab[PAD] = 0
        /\ tokenizer.vocab[UNK] = 1
        /\ \A c \in CorpusChars :
             tokenizer.vocab[<<c>>] = 2 + Cardinality({d \in CorpusChars : d < c})
        /\ \A k \in keys : tokenizer.inverseVocab[tokenizer.vocab[k]] = k
        /\ \A i \in 0..(tokenizer.vocabSize - 1) :
             /\ tokenizer.inverseVocab[i] \in keys
             /\ tokenizer.vocab[tokenizer.inverseVocab[i]] = i

C2_Witness ==
  /\ tokBuilt
  /\ Len(tokCorpus) >= 2
  /\ tokCorpus[1] > tokCorpus[2]
  /\ tokenizer.vocabSize = 4

\* The tokenized corpus of the buildDataset call and its window count
DsIds == encode(tokenizer, dsText)
DsWindows == IF Len(DsIds) - dsSeqLen > 0 THEN Len(DsIds) - dsSeqLen ELSE 0

(***************************************************************************)
(* C3: with C = length of the tokenized corpus, L = seqLen, B = batchSize  *)
(* and C - L >= B >= 1, buildDataset returns n = B * floor((C - L) / B)    *)
(* samples, the largest multiple of B not above C - L; sample i has input  *)
(* ids[i .. i+L-1] and target ids[i+1 .. i+L], so the samples are the      *)
(* first n windows in corpus order.                                        *)
(***************************************************************************)
C3_Windows ==
  (dsCalled /\ dsBatchSize >= 1 /\ Len(DsIds) - dsSeqLen >= dsBatchSize) =>
    LET C == Len(DsIds)
        L == dsSeqLen
        B == dsBatchSize
        n == B * ((C - L) \div B)
    IN  /\ dsResult.kind = "dataset"
        /\ dsResult.numSamples = n
        /\ n % B = 0 /\ n <= C - L /\ n + B > C - L
        /\ Len(dsResult.inputs) = n
        /\ Len(dsResult.targets) = n
        /\ \A i \in 0..(n - 1) :
             /\ dsResult.inputs[i + 1] = [j \in 1..L |-> DsIds[i + j]]
             /\ dsResult.targets[i + 1] = [j \in 1..L |-> DsIds[i + j + 1]]

C3_Witness ==
  /\ dsCalled
  /\ dsResult.kind = "dataset"
  /\ dsSeqLen >= 2
  /\ dsBatchSize >= 2
  /\ dsResult.numSamples >= 2
  /\ DsWindows % dsBatchSize # 0
  /\ Cardinality(Range(DsIds)) >= 2

(***************************************************************************)
(* C4: buildDataset throws, and returns no dataset, whenever the text is   *)
(* shorter than seqLen + 1 or the batch size exceeds the number of         *)
(* available windows; a dataset it returns never has zero samples.         *)
(***************************************************************************)
C4_TooShortFails ==
  dsCalled =>
    /\ (Len(dsText) < dsSeqLen + 1 \/ dsBatchSize > DsWindows) => dsResult.kind = "error"
    /\ dsResult.kind = "dataset" =>
         /\ dsResult.numSamples > 0
         /\ Len(dsResult.inputs) > 0
         /\ Len(dsResult.targets) > 0

C4_Witness ==
  /\ dsCalled
  /\ Len(dsText) >= dsSeqLen + 1
  /\ dsBatchSize > DsWindows
  /\ dsResult.kind = "error"
  /\ dsResult.message = TooShortMessage

\* How often an event of the given kind occurs among the events of the call
CountKind(kind) == Cardinality({i \in 1..Len(events) : events[i].kind = kind})

(***************************************************************************)
(* C5: when buildDataset throws inside trainModel, the call ends with no   *)
(* forward pass and no optimizer step: every variable has the value it had *)
(* before the call, the error message went to onLog, and trainModel        *)
(* returned normally, so that the caller can call it again.                *)
(***************************************************************************)
C5_DatasetFailureAborts ==
  (/\ trainPc # "idle"
   /\ buildDataset(trainCorpus, tokenizer, trainConfig.seqLen,
                   trainConfig.batchSize).kind = "error")
  => /\ trainPc = "returned"
     /\ params = params0
     /\ fwdCount = 0
     /\ CountKind("update") = 0
     /\ events = <<LogPreparing(Len(trainCorpus)), LogError(TooShortMessage)>>
     /\ ENABLED (\E len \in 0..MaxTrainLen, config \in TrainConfigs :
                   TrainStart(TrainText(len), config))

C5_Witness ==
  /\ trainPc = "returned"
  /\ Len(trainCorpus) >= trainConfig.seqLen + 1
  /\ trainConfig.epochs >= 1
  /\ events[Len(events)].kind = "log:error"

(***************************************************************************)
(* C6: a trainModel call that does not fail logs Preparing, then for each  *)
(* epoch 1..epochs applies numSamples/batchSize optimizer updates, batch k *)
(* being windows [k*batchSize, (k+1)*batchSize) in every epoch, then logs  *)
(* that epoch's index and mean loss once, and logs Complete as the last    *)
(* event; epochs * numSamples/batchSize updates and epochs epoch logs      *)
(* occur in total.                                                         *)
(***************************************************************************)
C6_TrainingOrder ==
  trainPc = "complete" =>
    LET B == trainConfig.batchSize
        E == trainConfig.epochs
        n == dataset.numSamples
        S == n \div B
        At(e, k) == events[2 + (e - 1) * (S + 1) + k + 1]
    IN  /\ n % B = 0
        /\ Len(events) = 2 + E * (S + 1) + 1
        /\ events[1] = LogPreparing(Len(trainCorpus))
        /\ events[2] = LogDataset(n, S)
        /\ \A e \in 1..E : \A k \in 0..(S - 1) :
             /\ At(e, k).kind = "update"
             /\ At(e, k).epoch = e
             /\ At(e, k).step = k
             /\ At(e, k).inputs = [r \in 1..B |-> dataset.inputs[k * B + r]]
             /\ At(e, k).targets = [r \in 1..B |-> dataset.targets[k * B + r]]
        /\ \A e \in 1..E :
             At(e, S) = LogEpoch(e, E, ToFixed4(SumSeq([k \in 1..S |-> At(e, k - 1).loss]), S))
        /\ events[Len(events)] = LogComplete
        /\ CountKind("update") = E * S
        /\ CountKind("log:epoch") = E
        /\ CountKind("log:complete") = 1
        /\ fwdCount = E * S

C6_Witness ==
  /\ trainPc = "complete"
  /\ trainConfig.epochs >= 2
  /\ trainConfig.batchSize >= 2
  /\ dataset.numSamples \div trainConfig.batchSize >= 2
  /\ params # params0

\* The variables after the optimizer updates among the given events, in order
RECURSIVE Replay(_, _, _)
Replay(p, evs, learningRate) ==
  IF evs = <<>> THEN p
  ELSE LET ev == Head(evs)
       IN  IF ev.kind = "update"
           THEN Replay(ApplyGradients(p, Grads(p, ev.inputs, ev.targets), learningRate),
                       Tail(evs), learningRate)
           ELSE Replay(p, Tail(evs), learningRate)

(***************************************************************************)
(* C7: the update is atomic per batch.  Where trainModel has yielded,      *)
(* returned or thrown, the variables are the result of a whole number of   *)
(* completed batch updates; when the forward/backward of a batch throws,   *)
(* nothing follows the exception and the variables are those left by the   *)
(* batches completed before it.                                            *)
(***************************************************************************)
C7_AtomicBatch ==
  /\ trainPc \in {"yield", "failed", "complete", "returned"} =>
       params = Replay(params0, events, trainConfig.learningRate)
  /\ trainPc = "failed" =>
       LET last == events[Len(events)]
           S == dataset.numSamples \div trainConfig.batchSize
       IN  /\ last.kind = "throw"
           /\ CountKind("throw") = 1
           /\ CountKind("update") = (last.epoch - 1) * S + last.step
           /\ CountKind("log:complete") = 0

C7_Witness ==
  /\ trainPc = "failed"
  /\ CountKind("update") >= 2
  /\ events[Len(events)].step >= 1
  /\ params # params0

(***************************************************************************)
(* C8: a generateText call that does not fail performs exactly             *)
(* maxNewTokens steps and then returns: maxNewTokens forward passes,       *)
(* maxNewTokens sampled ids and one onStep call per generated token, for   *)
(* every prompt, the empty one included; while it runs, the loop counter   *)
(* equals the number of tokens generated and never exceeds maxNewTokens.   *)
(***************************************************************************)
C8_ExactlyMaxNewTokens ==
  /\ genPc = "done" =>
       /\ Len(contexts) = genConfig.maxNewTokens
       /\ Len(sampled) = genConfig.maxNewTokens
       /\ Len(callbacks) = genConfig.maxNewTokens
       /\ genI = genConfig.maxNewTokens
       /\ \A k \in 1..Len(callbacks) : callbacks[k] = decode(tokenizer, <<sampled[k]>>)
       /\ genReturn = Join(callbacks)
  /\ genPc # "idle" =>
       /\ Len(contexts) <= genConfig.maxNewTokens
       /\ Len(sampled) <= genConfig.maxNewTokens
       /\ Len(callbacks) = Len(sampled)
  /\ genPc \in {"loop", "yield"} =>
       /\ Len(sampled) = genI + (IF genPc = "yield" THEN 1 ELSE 0)
       /\ genI <= genConfig.maxNewTokens
       /\ genPc = "yield" => genI < genConfig.maxNewTokens

C8_Witness ==
  /\ genPc = "done"
  /\ genPrompt = <<>>
  /\ genConfig.maxNewTokens >= 2
  /\ Len(callbacks) = genConfig.maxNewTokens
  /\ sampled[1] # sampled[2]

\* The last m elements of a sequence
LastIds(q, m) == [j \in 1..m |-> q[Len(q) - m + j]]

(***************************************************************************)
(* C9: the context of every forward pass is the last min(len, maxLen) ids  *)
(* of the sequence as it then is, so it holds between 1 and maxLen ids;    *)
(* the sequence itself is never cut: it is the initial ids followed by the *)
(* ids sampled so far, one per step.                                       *)
(***************************************************************************)
C9_ContextWindow ==
  genPc # "idle" =>
    /\ tokenIds = genIds0 \o sampled
    /\ Len(genIds0) >= 1
    /\ \A k \in 1..Len(contexts) :
         LET seqThen == genIds0 \o SubSeq(sampled, 1, k - 1)
             m == IF Len(seqThen) < modelMaxLen THEN Len(seqThen) ELSE modelMaxLen
         IN  /\ contexts[k] = LastIds(seqThen, m)
             /\ Len(contexts[k]) >= 1
             /\ Len(contexts[k]) <= modelMaxLen

C9_Witness ==
  /\ genPc = "done"
  /\ Len(contexts) >= 2
  /\ Len(genIds0) >= 2
  /\ Len(tokenIds) > modelMaxLen + 1
  /\ Len(contexts[2]) = modelMaxLen
  /\ contexts[2][Len(contexts[2])] = sampled[1]
  /\ contexts[2][1] # tokenIds[1]

\* The lowest id among those with the greatest logit
ArgMax(logits) ==
  CHOOSE a \in DOMAIN logits :
    /\ \A b \in DOMAIN logits : logits[a] >= logits[b]
    /\ \A b \in DOMAIN logits : logits[b] = logits[a] => a <= b

\* The sequence after n steps that each append the arg-max id
RECURSIVE Greedy(_, _)
Greedy(ids, n) ==
  IF n = 0 THEN ids
  ELSE LET sofar == Greedy(ids, n - 1)
           m == IF Len(sofar) < modelMaxLen THEN Len(sofar) ELSE modelMaxLen
       IN  Append(sofar, ArgMax(LastLogits(params, LastIds(sofar, m), tokenizer.vocabSize)))

(***************************************************************************)
(* C10: with topK = 1 and a temperature at or below the floor 1e-5, every  *)
(* id sampleFromLogits returns is the arg-max of the logits whatever the   *)
(* random draw, so the generated sequence is a function of the model and   *)
(* the prompt alone.                                                       *)
(***************************************************************************)
C10_GreedyDeterministic ==
  (/\ genPc # "idle"
   /\ genConfig.topK = 1
   /\ genConfig.temperature <= TemperatureFloor)
  => /\ \A k \in 1..Len(sampled) :
          LET logits == LastLogits(params, contexts[k], tokenizer.vocabSize)
          IN  /\ \A v \in DOMAIN logits : logits[sampled[k]] >= logits[v]
              /\ \A r \in 0..(ProbUnit - 1) :
                   sampleFromLogits(logits, genConfig.temperature, 1, r) = sampled[k]
     /\ tokenIds = Greedy(genIds0, Len(sampled))

C10_Witness ==
  /\ genPc = "done"
  /\ genConfig.topK = 1
  /\ genConfig.temperature <= TemperatureFloor
  /\ Len(sampled) >= 2
  /\ sampled[1] # sampled[2]
  /\ \E v \in 0..(tokenizer.vocabSize - 1) :
       LastLogits(params, contexts[1], tokenizer.vocabSize)[v]
         < LastLogits(params, contexts[1], tokenizer.vocabSize)[sampled[1]]

\* The call's vocabulary size, and whether it took the top-k branch
SampSize == Cardinality(DOMAIN sampLogits)
SampInTopK == sampTopK > 0 /\ sampTopK < SampSize

\* The candidates of the call in scan order, as ids: the topK ids of tf.topk
\* in the top-k branch, every id in the full-vocabulary branch
SampCandidates ==
  IF SampInTopK
  THEN TopKIndices(Adjust(sampLogits, sampTemperature), sampTopK)
  ELSE [i \in 1..SampSize |-> i - 1]

\* The probabilities the scan adds up, one per candidate
SampProbs ==
  Softmax([i \in 1..Len(SampCandidates) |->
             Adjust(sampLogits, sampTemperature)[SampCandidates[i]]])

\* The draw lies above the sum of all the candidates' probabilities
SampDrawExceeds == sampR > SumSeq(SampProbs)

(***************************************************************************)
(* C11: when the random draw exceeds the cumulative probability after all  *)
(* candidates were scanned, sampleFromLogits returns the last candidate:   *)
(* the last of the k candidates in the top-k branch, id vocabSize - 1 in   *)
(* the full-vocabulary branch.                                             *)
(***************************************************************************)
C11_FallbackLast ==
  (sampCalled /\ SampDrawExceeds) =>
    sampResult = SampCandidates[Len(SampCandidates)]

\* The id the inverse-CDF scan over the whole vocabulary selects: the least id
\* whose cumulative probability reaches the draw, or the last id
SampFullChoice ==
  LET adjusted == Adjust(sampLogits, sampTemperature)
      probs == Softmax([i \in 1..SampSize |-> adjusted[i - 1]])
      reached == {i \in 0..(SampSize - 1) : sampR <= SumSeq(SubSeq(probs, 1, i + 1))}
  IN  IF reached = {} THEN SampSize - 1 ELSE Min(reached)

(***************************************************************************)
(* C12: the id sampleFromLogits returns is an id of the vocabulary; when   *)
(* 0 < topK < vocabSize it is one of the topK highest-scoring ids (fewer   *)
(* than topK ids score strictly higher), whatever the draw; when           *)
(* topK <= 0 or topK >= vocabSize it is the id inverse-CDF sampling over   *)
(* the softmax of the whole vocabulary selects.                            *)
(***************************************************************************)
C12_TopKFilter ==
  sampCalled =>
    /\ sampResult \in 0..(SampSize - 1)
    /\ (sampTopK > 0 /\ sampTopK < SampSize) =>
         Cardinality({b \in DOMAIN sampLogits : sampLogits[b] > sampLogits[sampResult]})
           < sampTopK
    /\ (sampTopK <= 0 \/ sampTopK >= SampSize) => sampResult = SampFullChoice

C12_Witness ==
  /\ sampCalled
  /\ sampTopK = 2
  /\ SampSize = 4
  /\ \E b \in DOMAIN sampLogits : sampLogits[b] < sampLogits[sampResult]
  /\ \E b \in DOMAIN sampLogits : b < sampResult /\ sampLogits[b] = sampLogits[sampResult]
  /\ sampLogits[0] < sampLogits[sampResult]

(***************************************************************************)
(* C13: the exported state holds the value of every variable of the model; *)
(* after importModelState into the same model, or into a fresh model built *)
(* from the saved config, every variable of that model equals its exported *)
(* value and has the exported shape; importTokenizer returns a tokenizer   *)
(* with the same vocab, inverseVocab and vocabSize as the exported one.    *)
(***************************************************************************)
C13_PersistRoundTrip ==
  /\ (expPc = "done" /\ ~trained /\ impKind = "none") =>
       /\ {saved.weights[k].name : k \in 1..Len(saved.weights)} = DOMAIN params
       /\ \A k \in 1..Len(saved.weights) :
            saved.weights[k].spec.data = params[saved.weights[k].name]
  /\ impKind \in {"same", "fresh"} =>
       /\ DOMAIN impAfter.vars = {saved.weights[k].name : k \in 1..Len(saved.weights)}
       /\ \A k \in 1..Len(saved.weights) :
            /\ impAfter.vars[saved.weights[k].name] = saved.weights[k].spec.data
            /\ ShapeOf(impAfter.config, saved.weights[k].name) = saved.weights[k].spec.shape
       /\ impKind = "same" => params = impAfter.vars
  /\ restoredBuilt =>
       /\ restored.vocab = tokenizer.vocab
       /\ restored.inverseVocab = tokenizer.inverseVocab
       /\ restored.vocabSize = tokenizer.vocabSize

C13_Witness ==
  /\ impKind = "same"
  /\ trained
  /\ restoredBuilt
  /\ tokenizer.vocabSize > 10
  /\ modelConfig.numLayers >= 2
  /\ \A n \in DOMAIN params : impBefore.vars[n] # impAfter.vars[n]
  /\ restored.inverseVocab[10] = <<65 + 8>>

\* The saved entries that importModelState can write into variable n of model m
C14_Usable(m, n) ==
  {k \in 1..Len(saved.weights) :
     /\ saved.weights[k].name = n
     /\ saved.weights[k].spec.shape = ShapeOf(m.config, n)}

(***************************************************************************)
(* C14: importModelState always returns.  A saved weight whose name the    *)
(* model lacks, or whose shape differs from the model's variable, changes  *)
(* nothing; every saved weight with a matching name and shape is written,  *)
(* wherever skipped entries stand; a variable with no usable saved weight  *)
(* keeps its value, and the model gains or loses no variable.              *)
(***************************************************************************)
C14_PartialRestore ==
  impKind # "none" =>
    /\ impAfter.config = impBefore.config
    /\ DOMAIN impAfter.vars = DOMAIN impBefore.vars
    /\ \A n \in DOMAIN impBefore.vars :
         IF C14_Usable(impBefore, n) = {}
         THEN impAfter.vars[n] = impBefore.vars[n]
         ELSE \E k \in C14_Usable(impBefore, n) :
                impAfter.vars[n] = saved.weights[k].spec.data

C14_Witness ==
  /\ impKind = "other"
  /\ saved.config.numLayers > impBefore.config.numLayers
  /\ saved.config.dff # impBefore.config.dff
  /\ saved.config.vocabSize = impBefore.config.vocabSize
  /\ impAfter.vars[<<"final_proj">>] # impBefore.vars[<<"final_proj">>]
  /\ impAfter.vars[<<"blk", 0, "ffn_w1">>] = impBefore.vars[<<"blk", 0, "ffn_w1">>]
  /\ impAfter.vars[<<"blk", 0, "ln2_b">>] # impBefore.vars[<<"blk", 0, "ln2_b">>]

(***************************************************************************)
(* C15: constructing a model whose dModel is not divisible by numHeads     *)
(* fails at construction, before any tensor is allocated; every model      *)
(* instance has dModel % numHeads = 0.                                     *)
(***************************************************************************)
C15_InvalidArchitectureRejected ==
  ctorCalled =>
    /\ ctorConfig.dModel % ctorConfig.numHeads # 0 =>
         /\ ctorResult.kind = "error"
         /\ ctorResult.allocated = 0
    /\ ctorResult.kind = "model" => ctorResult.config.dModel % ctorResult.config.numHeads = 0

(***************************************************************************)
(* C17: encode returns one id per character of its input, in order: the    *)
(* id the vocabulary gives the character, and 1 (UNK) for a character the  *)
(* vocabulary lacks; every id it returns is an id of the vocabulary.       *)
(***************************************************************************)
C17_EncodeTotal ==
  tokBuilt =>
    /\ Len(encIds) = Len(encText)
    /\ \A i \in 1..Len(encText) :
         /\ <<encText[i]>> \in DOMAIN tokenizer.vocab =>
              encIds[i] = tokenizer.vocab[<<encText[i]>>]
         /\ encText[i] \notin CorpusChars => encIds[i] = 1
         /\ encIds[i] \in 1..(tokenizer.vocabSize - 1)

C17_Witness ==
  /\ tokBuilt
  /\ Len(encText) >= 2
  /\ encText[1] \notin CorpusChars
  /\ encText[2] \in CorpusChars
  /\ encIds[1] = 1
  /\ encIds[2] = 2

(***************************************************************************)
(* C18: decode returns the strings of its ids joined in order, an id the   *)
(* inverse map lacks adding nothing: the result of one id is its string or *)
(* the empty string, and cutting the id sequence anywhere gives two        *)
(* sequences whose results, joined, are the result of the whole.           *)
(***************************************************************************)
C18_DecodeTotal ==
  tokBuilt =>
    /\ \A id \in 0..(NumChars + 2) :
         decode(tokenizer, <<id>>) =
           (IF id < tokenizer.vocabSize THEN tokenizer.inverseVocab[id] ELSE <<>>)
    /\ \A k \in 0..Len(decIds) :
         decText = decode(tokenizer, SubSeq(decIds, 1, k))
                     \o decode(tokenizer, SubSeq(decIds, k + 1, Len(decIds)))
    /\ Len(decText) =
         SumSeq([i \in 1..Len(decIds) |->
                   IF decIds[i] \in DOMAIN tokenizer.inverseVocab
                   THEN Len(tokenizer.inverseVocab[decIds[i]]) ELSE 0])

C18_Witness ==
  /\ tokBuilt
  /\ Len(decIds) >= 2
  /\ decIds[1] \notin DOMAIN tokenizer.inverseVocab
  /\ decIds[2] >= 2
  /\ decIds[2] \in DOMAIN tokenizer.inverseVocab
  /\ decText = tokenizer.inverseVocab[decIds[2]]

(***************************************************************************)
(* C19: generateText gives up control once per generated token.  Forward   *)
(* pass k + 1 runs only after k yields, and the k-th yield comes only      *)
(* after onStep was called for token k: while the call is suspended or     *)
(* about to test its loop condition, the yields, the forward passes and    *)
(* the callbacks made so far are equal in number.                          *)
(***************************************************************************)
C19_YieldPerToken ==
  /\ genYields <= Len(callbacks)
  /\ Len(contexts) <= genYields + 1
  /\ genPc \in {"loop", "yield", "done"} =>
       /\ genYields = Len(contexts)
       /\ genYields = Len(callbacks)
  /\ genPc = "failed" => Len(contexts) = genYields + 1 /\ Len(callbacks) = genYields

C19_Witness ==
  /\ genPc = "yield"
  /\ genYields = 2
  /\ Len(contexts) = 2
  /\ Len(callbacks) = 2
  /\ genConfig.maxNewTokens = 2

\* The calls in progress
CallsInProgress == {i \in DOMAIN calls : InProgress(calls[i])}

(***************************************************************************)
(* C16: whatever the user does, at most one trainModel or generateText     *)
(* call is in progress at any time: no call is started while another is    *)
(* suspended at a yield.                                                   *)
(***************************************************************************)
C16_OneCallAtATime == Cardinality(CallsInProgress) <= 1

\* How many calls of a kind ended in a given way
CallsEnded(kind, end) ==
  Cardinality({i \in DOMAIN calls : calls[i].kind = kind /\ calls[i].end = end})

\* With no call in progress the status shows no call, and every exception and
\* every dataset error of a call has been logged
C20_Idle ==
  /\ CallsInProgress = {} => status \notin {"TRAINING", "GENERATING"}
  /\ CopiesIn("Training Error: msg", logs) = CallsEnded("train", "threw")
  /\ CopiesIn("Generation Error: msg", logs) = CallsEnded("generate", "threw")
  /\ CopiesIn("Error: msg", logs) = CallsEnded("train", "dataset-error")

\* The step in which a call ends leaves the status READY
C20_EndSetsReady ==
  \A i \in DOMAIN calls' :
    (/\ ~InProgress(calls'[i])
     /\ (i \notin DOMAIN calls \/ InProgress(calls[i])))
    => status' = "READY"

(***************************************************************************)
(* C20: when a training or generation call started from the application    *)
(* ends, by returning or by an exception, the handler logs the message of  *)
(* the exception and sets the status to READY in the same run; the status  *)
(* is never TRAINING or GENERATING once no call is in progress.            *)
(***************************************************************************)
C20_ReturnsToReady == []C20_Idle /\ [][C20_EndSetsReady]_vars

C20_Witness ==
  /\ status = "READY"
  /\ CallsInProgress = {}
  /\ \E i \in DOMAIN calls :
       calls[i].kind = "train" /\ calls[i].end = "threw" /\ calls[i].left = 0
  /\ \E j \in DOMAIN calls : calls[j].kind = "generate" /\ calls[j].end = "threw"
  /\ CopiesIn("Epoch e/E - Loss: x", logs) >= 1

(***************************************************************************)
(* C21: createLookAheadMask(n) is the n-by-n matrix with 1 exactly where   *)
(* j > i; a forward call builds it once, for the length of its input, and  *)
(* every block is given that same mask and adds mask * (-1e9) to its       *)
(* scores: the score of every future position j > i is moved by the        *)
(* masking offset and no score with j <= i is moved.                       *)
(***************************************************************************)
FwdPositions == 0..(Len(fwdIds) - 1)

C21_CausalMask ==
  fwdPc # "idle" =>
    /\ fwdMaskCalls = 1
    /\ DOMAIN fwdMask = FwdPositions
    /\ \A i \in FwdPositions :
         /\ DOMAIN fwdMask[i] = FwdPositions
         /\ \A j \in FwdPositions :
              /\ fwdMask[i][j] \in {0, 1}
              /\ fwdMask[i][j] = 1 <=> j > i
    /\ Len(fwdBlocks) <= fwdLayers
    /\ fwdPc = "done" => Len(fwdBlocks) = fwdLayers
    /\ \A b \in 1..Len(fwdBlocks) :
         /\ fwdBlocks[b].mask = fwdMask
         /\ \A i, j \in FwdPositions :
              /\ j > i => fwdBlocks[b].scores[i][j] = fwdBlocks[b].raw[i][j] + MaskOffset
              /\ j <= i => fwdBlocks[b].scores[i][j] = fwdBlocks[b].raw[i][j]

\* A forward call over three positions has run two blocks whose raw scores
\* differ, and a future position of the second block carries the offset
C21_Witness ==
  /\ fwdPc = "done"
  /\ Len(fwdIds) = 3
  /\ Len(fwdBlocks) = 2
  /\ fwdBlocks[1].raw # fwdBlocks[2].raw
  /\ fwdBlocks[2].raw[0][2] > 0
  /\ fwdBlocks[2].scores[0][2] < 0
  /\ fwdBlocks[2].scores[2][0] = fwdBlocks[2].raw[2][0]

(***************************************************************************)
(* C22: the variables of the model are changed only by the optimizer       *)
(* update of trainModel and by importModelState.  A step of generateText,  *)
(* of exportModelState, of a direct forward or predict call leaves every   *)
(* variable as it was, and a step that changes a variable is an optimizer  *)
(* update or an import.                                                    *)
(***************************************************************************)
C22_ReadOnlyStep ==
  (\/ genVars' # genVars
   \/ <<expPc, expWeights, saved>>' # <<expPc, expWeights, saved>>
   \/ shVars' # shVars)
    => params' = params

C22_WriterStep ==
  params' # params =>
    \/ /\ Len(events') = Len(events) + 1
       /\ events'[Len(events')].kind = "update"
    \/ impKind' # impKind

C22_ParametersOwned == [][C22_ReadOnlyStep /\ C22_WriterStep]_vars

\* Every operation has run on the one model: generateText and
\* exportModelState returned, a direct call was made, the optimizer updated
\* the variables and importModelState overwrote them
C22_Witness ==
  /\ genPc = "done"
  /\ Len(contexts) >= 1
  /\ expPc = "done"
  /\ shOp = "predict"
  /\ Len(shIds) > 0
  /\ CountKind("update") >= 2
  /\ impKind = "same"
  /\ impBefore.vars # impAfter.vars
  /\ params = impAfter.vars

(***************************************************************************)
(* C24: an exportModelState call made while a trainModel call is in        *)
(* progress returns a consistent snapshot: there is one number n of        *)
(* completed optimizer steps such that every exported weight is the value  *)
(* its variable held after n steps.                                        *)
(***************************************************************************)
Updates == SelectSeq(events, LAMBDA e : e.kind = "update")

\* The variables after the first n optimizer steps of the trainModel call
ParamsAfterSteps(n) == Replay(params0, SubSeq(Updates, 1, n), trainConfig.learningRate)

C24_ConsistentSnapshot ==
  expPc = "done" =>
    \E n \in 0..Len(Updates) :
      \A k \in 1..Len(saved.weights) :
        saved.weights[k].spec.data = ParamsAfterSteps(n)[saved.weights[k].name]

(***************************************************************************)
(* C23: a load restores the tokenizer and the model as one unit.  When a   *)
(* handleLoad run ends, with success or with an error, the current         *)
(* tokenizer and the current model are both the ones built from the loaded *)
(* state or both the ones in place before the load.                        *)
(***************************************************************************)
\* The step in which a handleLoad run goes from its await to its end
LoadEnds == loadPending /\ ~loadPending'

C23_LoadStep ==
  LoadEnds =>
    \/ tokenizerRef' = objects + 1 /\ modelRef' = objects + 2
    \/ tokenizerRef' = tokenizerRef /\ modelRef' = modelRef

C23_LoadAsUnit == [][C23_LoadStep]_vars

=============================================================================
